---- MODULE Spec2Model ----
(***************************************************************************)
(* A model of the two-pass assembler: the generic chained hash table, the  *)
(* symbol table built on it, the macro preprocessor, the first pass and    *)
(* the second pass, the line parser.  SpecPre and SpecAsm take lines as    *)
(* their whitespace-delimited tokens and as the parsed_line records        *)
(* parse_line fills in; SpecPreText and SpecText take the text of the      *)
(* file, read by fgets and cut into tokens by strtok and parse_line.       *)
(* SpecB4, SpecHash and SpecVec call word_to_base4, the hash table and the *)
(* vector on their own; SpecMain is the driver, main.                      *)
(***************************************************************************)
EXTENDS Integers, Sequences, FiniteSets, TLC

(***************************************************************************)
(* Bounds of the model.                                                    *)
(***************************************************************************)
MaxLines == 3
MaxPreLines == 4
MaxItems == 33      \* items of the longest .data list
MaxPad == 78        \* filler characters of the longest line

(***************************************************************************)
(* Program constants.                                                      *)
(***************************************************************************)
ADDRESS_BASE == 100
IMAGE_LENGTH == 256
HASH_STARTING_VAL == 5381
DJ_SHIFT == 5
INITIAL_CAPACITY == 32
WORD_BITS == 16

MAX_DATA_ITEMS == 32
MAX_MATRIX_ROWS == 15
MAX_MATRIX_COLS == 15
MAX_LINE_LENGTH == 82
MAX_LABEL_LENGTH == 31

ARE_A == 0
ARE_E == 1
ARE_R == 2

IMMEDIATE == 0
DIRECT == 1
MATRIX_ACCESS == 2
REGISTER_DIRECT == 3

MOV_OP == 0
CMP_OP == 1
LEA_OP == 4
INC_OP == 7
JMP_OP == 9
PRN_OP == 13
STOP_OP == 15

ADD_OP == 2
SUB_OP == 3
CLR_OP == 5
NOT_OP == 6
DEC_OP == 8
BNE_OP == 10
JSR_OP == 11
RED_OP == 12
RTS_OP == 14
UNKNOWN_OP == -1

SYM_CODE == "SYM_CODE"
SYM_DATA == "SYM_DATA"
SYM_ENTRY == "SYM_ENTRY"
SYM_EXTERN == "SYM_EXTERN"

(***************************************************************************)
(* Integer helpers: powers of two, C's shifts and bitwise operators on     *)
(* non-negative values, and the conversion to the 16-bit WORD.             *)
(***************************************************************************)
RECURSIVE Pow2(_)
Pow2(n) == IF n = 0 THEN 1 ELSE 2 * Pow2(n - 1)

Shl(x, n) == x * Pow2(n)

RECURSIVE BitOr(_, _)
BitOr(a, b) ==
    IF a = 0 THEN b
    ELSE IF b = 0 THEN a
    ELSE (IF (a % 2 = 1) \/ (b % 2 = 1) THEN 1 ELSE 0) + 2 * BitOr(a \div 2, b \div 2)

RECURSIVE BitAnd(_, _)
BitAnd(a, b) ==
    IF a = 0 \/ b = 0 THEN 0
    ELSE (IF (a % 2 = 1) /\ (b % 2 = 1) THEN 1 ELSE 0) + 2 * BitAnd(a \div 2, b \div 2)

\* (WORD) x : conversion of an int to unsigned short
ToWord(x) == x % Pow2(WORD_BITS)

\* WORD_SET_ARE(w, are): (w & ~0x0003) | (are & 0x3)
WORD_SET_ARE(w, are) == ToWord(BitOr(w - (w % 4), BitAnd(are, 3)))

\* FIRST_WORD(op, src_mode, dst_mode, are)
FIRST_WORD(op, src_mode, dst_mode, are) ==
    BitOr(BitOr(BitOr(Shl(op, 6), Shl(src_mode, 4)), Shl(dst_mode, 2)), are)

(***************************************************************************)
(* Characters.  A C string is a TLA+ string.                               *)
(***************************************************************************)
\* the character at position i of s, "" at and after the terminating NUL
Ch(s, i) == IF i >= 1 /\ i <= Len(s) THEN SubSeq(s, i, i) ELSE ""

\* the string from position i on
From(s, i) == SubSeq(s, i, Len(s))

\* the characters with the codes 32..95 and 97..126
Printable == " !\"#$%&'()*+,-./0123456789:;<=>?@ABCDEFGHIJKLMNOPQRSTUVWXYZ[\\]^_"
PrintableLower == "abcdefghijklmnopqrstuvwxyz{|}~"

\* the ASCII code of a character
Ord(c) ==
    CASE c = "\t" -> 9
      [] c = "\n" -> 10
      [] c = "\r" -> 13
      [] \E i \in 1..Len(Printable) : Ch(Printable, i) = c ->
             31 + (CHOOSE i \in 1..Len(Printable) : Ch(Printable, i) = c)
      [] OTHER -> 96 + (CHOOSE i \in 1..Len(PrintableLower) : Ch(PrintableLower, i) = c)

\* the character codes of a string
Codes(s) == [i \in 1..Len(s) |-> Ord(Ch(s, i))]

(***************************************************************************)
(* Names.  A name is a string; CharsOf gives its characters (ASCII codes), *)
(* which is what the hash function reads.                                  *)
(***************************************************************************)
CharsOf(name) ==
    CASE name = "AB" -> <<65, 66>>
      [] name = "BA" -> <<66, 65>>
      [] name = "X" -> <<88>>
      [] name = "my_inc" -> <<109, 121, 95, 105, 110, 99>>
      [] name = "m2" -> <<109, 50>>
      [] name = "inc" -> <<105, 110, 99>>
      [] name = "mov" -> <<109, 111, 118>>
      [] name = "endmcro" -> <<101, 110, 100, 109, 99, 114, 111>>
      [] name = "r1" -> <<114, 49>>
      [] name = "some_junk" -> <<115, 111, 109, 101, 95, 106, 117, 110, 107>>
      [] OTHER -> Codes(name)

(***************************************************************************)
(* util_hash.c: a table of `capacity` chains; a chain is a sequence of     *)
(* entries [key, value], head first.  tbl maps the index of each non-empty *)
(* chain to the chain; an index outside its domain is a NULL head.         *)
(***************************************************************************)
\* djb2, reduced modulo 2^16: the table only ever uses hash & (capacity - 1)
\* with capacity = 32, so the low bits are all that is read.
RECURSIVE djb2From(_, _, _)
djb2From(chars, i, hash) ==
    IF i > Len(chars) THEN hash
    ELSE djb2From(chars, i + 1, (Shl(hash, DJ_SHIFT) + hash + chars[i]) % Pow2(WORD_BITS))

\* the keys the tables are asked for
Keys == {"AB", "BA", "X", "my_inc", "m2", "inc", "mov", "endmcro", "r1", "some_junk"}

\* djb2 of every key, computed once
Djb2Of == [key \in Keys |-> djb2From(CharsOf(key), 1, HASH_STARTING_VAL)]

djb2(key) ==
    IF key \in Keys THEN Djb2Of[key] ELSE djb2From(CharsOf(key), 1, HASH_STARTING_VAL)

hash_create == [capacity |-> INITIAL_CAPACITY, size |-> 0, tbl |-> [i \in {} |-> <<>>]]

\* ht->tbl[index]
Chain(ht, index) == IF index \in DOMAIN ht.tbl THEN ht.tbl[index] ELSE <<>>

\* index = hash & (capacity - 1)
BucketOf(ht, key) == BitAnd(djb2(key), ht.capacity - 1)

\* position of key in a chain, 0 when absent
RECURSIVE ChainFind(_, _, _)
ChainFind(chain, key, i) ==
    IF i > Len(chain) THEN 0
    ELSE IF chain[i].key = key THEN i
    ELSE ChainFind(chain, key, i + 1)

\* hash_get(ht, key) != NULL
hash_has(ht, key) == ChainFind(Chain(ht, BucketOf(ht, key)), key, 1) # 0

\* hash_get(ht, key), for a key that is present
hash_get(ht, key) ==
    LET chain == Chain(ht, BucketOf(ht, key))
    IN chain[ChainFind(chain, key, 1)].value

hash_put(ht, key, value) ==
    LET index == BucketOf(ht, key)
        chain == Chain(ht, index)
        at == ChainFind(chain, key, 1)
    IN IF at # 0
       THEN [ht EXCEPT !.tbl[index][at].value = value]
       ELSE [ht EXCEPT !.tbl = [i \in DOMAIN ht.tbl \cup {index} |->
                                  IF i = index
                                  THEN <<[key |-> key, value |-> value]>> \o chain
                                  ELSE ht.tbl[i]],
                       !.size = ht.size + 1]

\* the null pointer
NULL == 0

\* hash_get(ht, key)
hash_get_or_NULL(ht, key) == IF hash_has(ht, key) THEN hash_get(ht, key) ELSE NULL

hash_size(ht) == ht.size

\* hash_put(ht, key, value) and the value it returns; failed: malloc or
\* dupstr returns NULL
hash_put_ret(ht, key, value, failed) ==
    IF ~hash_has(ht, key) /\ failed
    THEN [ret |-> -1, ht |-> ht]
    ELSE [ret |-> 0, ht |-> hash_put(ht, key, value)]

\* the chain without its at-th entry
Unlink(chain, at) == SubSeq(chain, 1, at - 1) \o SubSeq(chain, at + 1, Len(chain))

\* A variant of hash_remove that lets go of the entries chained after the
\* one it removes.
hash_remove_drop_rest(ht, key) ==
    IF ~hash_has(ht, key)
    THEN [ret |-> -1, ht |-> ht]
    ELSE [ret |-> 0,
          ht |-> [ht EXCEPT
                    !.tbl = [i \in DOMAIN ht.tbl \ (IF ChainFind(ht.tbl[BucketOf(ht, key)], key, 1) = 1
                                                    THEN {BucketOf(ht, key)} ELSE {}) |->
                               IF i = BucketOf(ht, key)
                               THEN SubSeq(ht.tbl[i], 1, ChainFind(ht.tbl[i], key, 1) - 1)
                               ELSE ht.tbl[i]],
                    !.size = ht.size - 1]]

\* hash_remove(ht, key, NULL) and the value it returns
hash_remove(ht, key) ==
    IF ~hash_has(ht, key)
    THEN [ret |-> -1, ht |-> ht]
    ELSE [ret |-> 0,
          ht |-> [ht EXCEPT
                    !.tbl = [i \in DOMAIN ht.tbl \ (IF Len(ht.tbl[BucketOf(ht, key)]) = 1
                                                    THEN {BucketOf(ht, key)} ELSE {}) |->
                               IF i = BucketOf(ht, key)
                               THEN Unlink(ht.tbl[i], ChainFind(ht.tbl[i], key, 1))
                               ELSE ht.tbl[i]],
                    !.size = ht.size - 1]]

\* An entry pointer is [index, at]: the at-th entry of chain index; the
\* null pointer is NoEntry.
NoEntry == [index |-> -1, at |-> 0]

RECURSIVE NextNonEmpty(_, _)
NextNonEmpty(ht, index) ==
    IF index >= ht.capacity THEN NoEntry
    ELSE IF Chain(ht, index) # <<>> THEN [index |-> index, at |-> 1]
    ELSE NextNonEmpty(ht, index + 1)

EntryAt(ht, e) == ht.tbl[e.index][e.at]

\* A variant of hash_get_next that leaves a chain after its first entry.
hash_get_next_skip_chain(ht, current) ==
    IF ht.size = 0 THEN NoEntry
    ELSE IF current # NoEntry
         THEN NextNonEmpty(ht, BucketOf(ht, EntryAt(ht, current).key) + 1)
         ELSE NextNonEmpty(ht, 0)

hash_get_next(ht, current) ==
    IF ht.size = 0 THEN NoEntry
    ELSE IF current # NoEntry
         THEN IF current.at < Len(Chain(ht, current.index))
              THEN [index |-> current.index, at |-> current.at + 1]
              ELSE NextNonEmpty(ht, BucketOf(ht, EntryAt(ht, current).key) + 1)
         ELSE NextNonEmpty(ht, 0)

(***************************************************************************)
(* symbol_table.c: a symbol is [name, address, flags]; the table is a hash *)
(* table from the name to the symbol.                                      *)
(***************************************************************************)
\* A variant of check_symbol_conflicts without the Entry/Extern rules.
check_symbol_conflicts_no_entry_extern(existing_flags, new_flags) ==
    \/ (new_flags \cap {SYM_CODE, SYM_DATA} # {}) /\ (existing_flags \cap {SYM_CODE, SYM_DATA} # {})
    \/ (new_flags \cap {SYM_CODE, SYM_DATA} # {}) /\ (SYM_EXTERN \in existing_flags)
    \/ (SYM_EXTERN \in new_flags) /\ (existing_flags \cap {SYM_CODE, SYM_DATA} # {})
    \/ (SYM_ENTRY \in new_flags) /\ (SYM_ENTRY \in existing_flags)

check_symbol_conflicts(existing_flags, new_flags) ==
    \/ (new_flags \cap {SYM_CODE, SYM_DATA} # {}) /\ (existing_flags \cap {SYM_CODE, SYM_DATA} # {})
    \/ (new_flags \cap {SYM_CODE, SYM_DATA} # {}) /\ (SYM_EXTERN \in existing_flags)
    \/ (SYM_EXTERN \in new_flags) /\ (existing_flags \cap {SYM_CODE, SYM_DATA} # {})
    \/ (SYM_ENTRY \in new_flags) /\ (SYM_ENTRY \in existing_flags)
    \/ (SYM_ENTRY \in new_flags) /\ (SYM_EXTERN \in existing_flags)
    \/ (SYM_EXTERN \in new_flags) /\ (SYM_ENTRY \in existing_flags)

\* A variant of symtab_insert that stores the address on every merge.
symtab_insert_overwrite(st, name, address, add_flags) ==
    IF hash_has(st, name)
    THEN LET index == BucketOf(st, name)
             at == ChainFind(Chain(st, index), name, 1)
             s == st.tbl[index][at].value
         IN IF check_symbol_conflicts(s.flags, add_flags)
            THEN [ret |-> 0, st |-> st]
            ELSE [ret |-> 1,
                  st |-> [st EXCEPT !.tbl[index][at].value =
                           [s EXCEPT !.address = address, !.flags = @ \cup add_flags]]]
    ELSE [ret |-> 1,
          st |-> hash_put(st, name, [name |-> name, address |-> address, flags |-> add_flags])]

\* symtab_insert: [ret |-> 1 on success and 0 on failure, st |-> the table after]
symtab_insert(st, name, address, add_flags) ==
    IF hash_has(st, name)
    THEN LET index == BucketOf(st, name)
             at == ChainFind(Chain(st, index), name, 1)
             s == st.tbl[index][at].value
         IN IF check_symbol_conflicts(s.flags, add_flags)
            THEN [ret |-> 0, st |-> st]
            ELSE [ret |-> 1,
                  st |-> [st EXCEPT !.tbl[index][at].value =
                           [s EXCEPT !.address = IF add_flags \cap {SYM_CODE, SYM_DATA} # {}
                                                 THEN address ELSE @,
                                     !.flags = @ \cup add_flags]]]
    ELSE [ret |-> 1,
          st |-> hash_put(st, name, [name |-> name, address |-> address, flags |-> add_flags])]

symtab_create == hash_create

symtab_has(st, name) == hash_has(st, name)

symtab_lookup(st, name) == hash_get(st, name)

RECURSIVE BumpLoop(_, _, _)
BumpLoop(st, it, ic_final) ==
    IF it = NoEntry THEN st
    ELSE LET s == EntryAt(st, it).value
             st2 == IF SYM_DATA \in s.flags
                    THEN [st EXCEPT !.tbl[it.index][it.at].value.address = @ + ic_final]
                    ELSE st
         IN BumpLoop(st2, hash_get_next(st2, it), ic_final)

\* A variant of symtab_bump_data_addresses that leaves every address as it is.
symtab_bump_data_addresses_none(st, ic_final) == st

symtab_bump_data_addresses(st, ic_final) == BumpLoop(st, hash_get_next(st, NoEntry), ic_final)

\* the symbols met by iterating with symtab_iter_next from the start
RECURSIVE IterFrom(_, _)
IterFrom(st, it) ==
    IF it = NoEntry THEN <<>>
    ELSE <<EntryAt(st, it).value>> \o IterFrom(st, hash_get_next(st, it))

symtab_iter(st) == IterFrom(st, hash_get_next(st, NoEntry))

(***************************************************************************)
(* line_parser.h: operands and parsed lines.  A parsed line carries the    *)
(* code parse_line returned for it (st) and the parsed_line it filled in.  *)
(***************************************************************************)
ZeroOperand == [mode |-> IMMEDIATE, immediate_value |-> 0, reg_num |-> 0,
                label |-> "", row_reg |-> 0, col_reg |-> 0]

ImmOp(v) == [ZeroOperand EXCEPT !.mode = IMMEDIATE, !.immediate_value = v]
RegOp(n) == [ZeroOperand EXCEPT !.mode = REGISTER_DIRECT, !.reg_num = n]
DirOp(l) == [ZeroOperand EXCEPT !.mode = DIRECT, !.label = l]
MatOp(l, r, c) == [ZeroOperand EXCEPT !.mode = MATRIX_ACCESS, !.label = l,
                                      !.row_reg = r, !.col_reg = c]

ZeroLine == [st |-> "ERROR_OK", kind |-> "LINE_EMPTY_OR_COMMENT", label |-> "",
             type |-> "DATA_DIRECTIVE", data |-> <<>>, string_val |-> <<>>,
             rows |-> 0, cols |-> 0, cells |-> <<>>, symbol_name |-> "",
             opcode |-> 0, n_operands |-> 0,
             source_op |-> ZeroOperand, dest_op |-> ZeroOperand]

ErrLine(code) == [ZeroLine EXCEPT !.st = code]

OpLine(label, opcode, n, src, dst) ==
    [ZeroLine EXCEPT !.kind = "LINE_OPERATION", !.label = label, !.opcode = opcode,
                     !.n_operands = n, !.source_op = src, !.dest_op = dst]

DataLine(label, values) ==
    [ZeroLine EXCEPT !.kind = "LINE_DIRECTIVE", !.label = label,
                     !.type = "DATA_DIRECTIVE", !.data = values]

StringLine(label, chars) ==
    [ZeroLine EXCEPT !.kind = "LINE_DIRECTIVE", !.label = label,
                     !.type = "STRING_DIRECTIVE", !.string_val = chars]

MatLine(label, rows, cols, cells) ==
    [ZeroLine EXCEPT !.kind = "LINE_DIRECTIVE", !.label = label,
                     !.type = "MATRIX_DIRECTIVE", !.rows = rows, !.cols = cols,
                     !.cells = cells]

EntryLine(label, name) ==
    [ZeroLine EXCEPT !.kind = "LINE_DIRECTIVE", !.label = label,
                     !.type = "ENTRY_DIRECTIVE", !.symbol_name = name]

ExternLine(label, name) ==
    [ZeroLine EXCEPT !.kind = "LINE_DIRECTIVE", !.label = label,
                     !.type = "EXTERN_DIRECTIVE", !.symbol_name = name]

\* The source lines the assembled files are made of.
AsmLines == {
    OpLine("AB", MOV_OP, 2, RegOp(1), RegOp(2)),          \* AB: mov r1, r2
    DataLine("BA", <<5, -6>>),                             \* BA: .data 5, -6
    StringLine("X", <<97>>),                               \* X: .string "a"
    MatLine("AB", 1, 2, <<7, 8>>),                         \* AB: .mat [1][2] 7, 8
    EntryLine("", "AB"),                                   \* .entry AB
    EntryLine("", "BA"),                                   \* .entry BA
    ExternLine("", "X"),                                   \* .extern X
    ExternLine("AB", "BA"),                                \* AB: .extern BA
    OpLine("", JMP_OP, 1, DirOp("X"), ZeroOperand),        \* jmp X
    OpLine("", LEA_OP, 2, MatOp("BA", 1, 2), DirOp("AB")), \* lea BA[r1][r2], AB
    OpLine("", PRN_OP, 1, ImmOp(-1), ZeroOperand),         \* prn #-1
    OpLine("X", STOP_OP, 0, ZeroOperand, ZeroOperand),     \* X: stop
    OpLine("", MOV_OP, 2, ImmOp(3), RegOp(7)),             \* mov #3, r7
    ZeroLine,                                              \* ; comment
    ErrLine("ERROR_UNKNOWN_COMMAND_NAME") }                \* foo r1

(***************************************************************************)
(* first_pass.c: word counts.                                              *)
(***************************************************************************)
get_extra_words_for_operand(op) ==
    CASE op.mode = IMMEDIATE -> 1
      [] op.mode = DIRECT -> 1
      [] op.mode = MATRIX_ACCESS -> 2
      [] op.mode = REGISTER_DIRECT -> 1
      [] OTHER -> 0

\* A variant of calc_instruction_words in which two registers take a word each.
calc_instruction_words_no_share(pl) ==
    LET n == pl.n_operands
    IN 1 + (IF n >= 1 THEN get_extra_words_for_operand(pl.source_op) ELSE 0)
         + (IF n >= 2 THEN get_extra_words_for_operand(pl.dest_op) ELSE 0)

calc_instruction_words(pl) ==
    LET n == pl.n_operands
        extra == (IF n >= 1 THEN get_extra_words_for_operand(pl.source_op) ELSE 0)
               + (IF n >= 2 THEN get_extra_words_for_operand(pl.dest_op) ELSE 0)
    IN 1 + (IF n = 2 /\ pl.source_op.mode = REGISTER_DIRECT
                     /\ pl.dest_op.mode = REGISTER_DIRECT
            THEN extra - 1 ELSE extra)

calc_directive_words(pl) ==
    CASE pl.type = "DATA_DIRECTIVE" -> Len(pl.data)
      [] pl.type = "STRING_DIRECTIVE" -> Len(pl.string_val) + 1
      [] pl.type = "MATRIX_DIRECTIVE" -> pl.rows * pl.cols
      [] OTHER -> 0

IsDataDirective(pl) ==
    pl.type \in {"DATA_DIRECTIVE", "STRING_DIRECTIVE", "MATRIX_DIRECTIVE"}

(***************************************************************************)
(* line_parser.c.  A pointer into a buffer is the string from that         *)
(* position to the terminating NUL.  A function that computes a value and  *)
(* then branches on it is written as an operator that computes the value   *)
(* and hands it to the operator that branches.                             *)
(***************************************************************************)
isspace(c) == c \in {" ", "\t", "\n", "\r"}

isdigit(c) == c # "" /\ Ord(c) >= 48 /\ Ord(c) <= 57

isalpha(c) == c # "" /\ (Ord(c) \in 65..90 \/ Ord(c) \in 97..122)

isalnum(c) == isalpha(c) \/ isdigit(c)

\* strpbrk(s + i - 1, set): the position of the first character of s at or
\* after i that is in set, 0 when there is none (strchr for a singleton)
RECURSIVE strpbrk(_, _, _)
strpbrk(s, i, set) ==
    IF i > Len(s) THEN 0
    ELSE IF Ch(s, i) \in set THEN i
    ELSE strpbrk(s, i + 1, set)

\* strrchr(s + i - 1, c): the position of the last c at or after i, 0 if none
RECURSIVE strrchr(_, _, _)
strrchr(s, i, c) ==
    IF i > Len(s) THEN 0
    ELSE IF Ch(s, Len(s)) = c THEN Len(s)
    ELSE strrchr(SubSeq(s, 1, Len(s) - 1), i, c)

\* the string cut at position at when at is not 0
CutAt(line, at) == IF at # 0 THEN SubSeq(line, 1, at - 1) ELSE line

remove_comment_from_semicolon(line) == CutAt(line, strpbrk(line, 1, {";"}))

RECURSIVE skip_leading_whitespace(_)
skip_leading_whitespace(p) ==
    IF Len(p) > 0 /\ isspace(Ch(p, 1)) THEN skip_leading_whitespace(From(p, 2)) ELSE p

RECURSIVE trim_trailing_whitespace_inplace(_)
trim_trailing_whitespace_inplace(p) ==
    IF Len(p) > 0 /\ isspace(Ch(p, Len(p)))
    THEN trim_trailing_whitespace_inplace(SubSeq(p, 1, Len(p) - 1))
    ELSE p

\* next_token once token_end is known (lines 64-72)
next_token_end(token_start, token_end) ==
    IF token_end # 0
    THEN [null |-> FALSE,
          token |-> trim_trailing_whitespace_inplace(SubSeq(token_start, 1, token_end - 1)),
          cursor |-> From(token_start, token_end + 1)]
    ELSE [null |-> FALSE,
          token |-> trim_trailing_whitespace_inplace(token_start),
          cursor |-> ""]

\* next_token once token_start is known (lines 58-64)
next_token_start(token_start, delimiters) ==
    IF token_start = "" THEN [null |-> TRUE, token |-> "", cursor |-> ""]
    ELSE next_token_end(token_start, strpbrk(token_start, 1, delimiters))

\* next_token(&cursor, delimiters): [null, token, cursor], where null says
\* that NULL was returned and cursor is the cursor afterwards
next_token(cursor, delimiters) ==
    next_token_start(skip_leading_whitespace(cursor), delimiters)

WhiteSpace == {" ", "\t", "\n", "\r"}

\* is_reserved_keyword of utils.c, the one line_parser.c is linked with
reserved_keywords ==
    {"mov", "cmp", "add", "sub", "not", "clr", "lea", "inc", "dec",
     "jmp", "bne", "red", "prn", "jsr", "rts", "stop",
     ".data", ".string", ".mat", ".entry", ".extern",
     "r0", "r1", "r2", "r3", "r4", "r5", "r6", "r7",
     "mcro", "mcrend"}

is_valid_label(label) ==
    IF Len(label) = 0 \/ Len(label) >= MAX_LABEL_LENGTH \/ ~isalpha(Ch(label, 1)) THEN FALSE
    ELSE IF \E i \in 2..Len(label) : ~isalnum(Ch(label, i)) THEN FALSE
    ELSE IF label \in reserved_keywords THEN FALSE
    ELSE TRUE

\* the value of the decimal digits s[i..j]
RECURSIVE DigitsValue(_, _, _)
DigitsValue(s, i, j) ==
    IF j < i THEN 0
    ELSE 10 * DigitsValue(s, i, j - 1) + (Ord(Ch(s, j)) - 48)

\* the position after the digits of s that start at i
RECURSIVE DigitsEnd(_, _)
DigitsEnd(s, i) == IF isdigit(Ch(s, i)) THEN DigitsEnd(s, i + 1) ELSE i

\* strtol with the digits at first..end-1
strtol_digits(s, start, first, end) ==
    IF end = first THEN [val |-> 0, endptr |-> 1]
    ELSE [val |-> (IF Ch(s, start) = "-" THEN -1 ELSE 1) * DigitsValue(s, first, end - 1),
          endptr |-> end]

\* strtol after the leading white space: an optional sign, then digits
strtol_sign(s, start, first) == strtol_digits(s, start, first, DigitsEnd(s, first))

strtol_start(s, start) ==
    strtol_sign(s, start, IF Ch(s, start) \in {"+", "-"} THEN start + 1 ELSE start)

\* strtol(s, &endptr, 10): [val, endptr], endptr a position of s (1 is s)
strtol(s) == strtol_start(s, Len(s) - Len(skip_leading_whitespace(s)) + 1)

parse_integer_end(s, r) ==
    [err |-> IF r.endptr <= Len(s) \/ r.endptr = 1
             THEN "ERROR_INVALID_NUMBER_FORMAT" ELSE "ERROR_OK",
     val |-> r.val]

\* parse_integer(s, &out_val): [err, val]
parse_integer(s) == parse_integer_end(s, strtol(s))

parse_register_token(tok) ==
    IF Ch(tok, 1) = "r" /\ Ch(tok, 2) \in {"0", "1", "2", "3", "4", "5", "6", "7"}
       /\ Len(tok) = 2
    THEN Ord(Ch(tok, 2)) - 48
    ELSE IF Ch(tok, 1) = "r" /\ isdigit(Ch(tok, 2)) /\ Len(tok) = 2 THEN -2
    ELSE -1

\* parse_operand, the registers of a matrix operand (lines 160-177)
parse_operand_registers(out_op, reg_len1, reg1, reg_len2, reg2) ==
    IF reg_len1 = 0 \/ reg_len1 >= 4 \/ reg1 < 0
    THEN [err |-> "ERROR_INVALID_REGISTER", op |-> out_op]
    ELSE IF reg_len2 = 0 \/ reg_len2 >= 4 \/ reg2 < 0
    THEN [err |-> "ERROR_INVALID_REGISTER", op |-> [out_op EXCEPT !.row_reg = reg1]]
    ELSE [err |-> "ERROR_OK",
          op |-> [out_op EXCEPT !.row_reg = reg1, !.col_reg = reg2, !.mode = MATRIX_ACCESS]]

\* parse_operand, a token with a '[' once the four brackets were looked for
\* (lines 147-177)
parse_operand_matrix(tok, out_op, first_open, first_close, second_open, second_close) ==
    IF \/ first_close = 0 \/ second_open = 0 \/ second_close = 0
       \/ second_open # first_close + 1 \/ second_close # Len(tok)
    THEN [err |-> "ERROR_INVALID_MATRIX_FORMAT", op |-> out_op]
    ELSE IF first_open - 1 = 0 \/ first_open - 1 >= MAX_LABEL_LENGTH
    THEN [err |-> "ERROR_ILLEGAL_LABEL", op |-> out_op]
    ELSE IF ~is_valid_label(SubSeq(tok, 1, first_open - 1))
    THEN [err |-> "ERROR_ILLEGAL_LABEL",
          op |-> [out_op EXCEPT !.label = SubSeq(tok, 1, first_open - 1)]]
    ELSE parse_operand_registers(
             [out_op EXCEPT !.label = SubSeq(tok, 1, first_open - 1)],
             first_close - first_open - 1,
             parse_register_token(SubSeq(tok, first_open + 1, first_close - 1)),
             second_close - second_open - 1,
             parse_register_token(SubSeq(tok, second_open + 1, second_close - 1)))

parse_operand_second(tok, out_op, first_open, first_close, second_open) ==
    parse_operand_matrix(tok, out_op, first_open, first_close, second_open,
                         IF second_open # 0 THEN strpbrk(tok, second_open, {"]"}) ELSE 0)

parse_operand_first(tok, out_op, first_open, first_close) ==
    parse_operand_second(tok, out_op, first_open, first_close,
                         IF first_close # 0 THEN strpbrk(tok, first_close, {"["}) ELSE 0)

\* parse_operand, a token that is neither immediate nor a register (lines 140-185)
parse_operand_label(tok, out_op, first_open) ==
    IF first_open # 0
    THEN parse_operand_first(tok, out_op, first_open, strpbrk(tok, first_open, {"]"}))
    ELSE IF ~is_valid_label(tok) THEN [err |-> "ERROR_ILLEGAL_LABEL", op |-> out_op]
    ELSE [err |-> "ERROR_OK", op |-> [out_op EXCEPT !.mode = DIRECT, !.label = tok]]

\* parse_operand, an immediate (lines 125-130)
parse_operand_immediate(out_op, r) ==
    IF r.err # "ERROR_OK" THEN [err |-> "ERROR_INVALID_NUMBER_FORMAT", op |-> out_op]
    ELSE [err |-> "ERROR_OK",
          op |-> [out_op EXCEPT !.mode = IMMEDIATE, !.immediate_value = r.val]]

\* parse_operand, a token that is not immediate (lines 132-185)
parse_operand_register(tok, out_op, reg) ==
    IF reg >= 0
    THEN [err |-> "ERROR_OK", op |-> [out_op EXCEPT !.mode = REGISTER_DIRECT, !.reg_num = reg]]
    ELSE IF reg = -2 THEN [err |-> "ERROR_INVALID_REGISTER", op |-> out_op]
    ELSE parse_operand_label(tok, out_op, strpbrk(tok, 1, {"["}))

\* parse_operand(tok, out_op): [err, op], op being *out_op afterwards
parse_operand(tok, out_op) ==
    IF tok = "" THEN [err |-> "ERROR_EXPECTED_OPERAND", op |-> out_op]
    ELSE IF Ch(tok, 1) = "#"
    THEN parse_operand_immediate(out_op, parse_integer(From(tok, 2)))
    ELSE parse_operand_register(tok, out_op, parse_register_token(tok))

OPCODES ==
    << [mnemonic |-> "mov", opcode |-> MOV_OP, required_operands |-> 2],
       [mnemonic |-> "cmp", opcode |-> CMP_OP, required_operands |-> 2],
       [mnemonic |-> "add", opcode |-> ADD_OP, required_operands |-> 2],
       [mnemonic |-> "sub", opcode |-> SUB_OP, required_operands |-> 2],
       [mnemonic |-> "lea", opcode |-> LEA_OP, required_operands |-> 2],
       [mnemonic |-> "clr", opcode |-> CLR_OP, required_operands |-> 1],
       [mnemonic |-> "not", opcode |-> NOT_OP, required_operands |-> 1],
       [mnemonic |-> "inc", opcode |-> INC_OP, required_operands |-> 1],
       [mnemonic |-> "dec", opcode |-> DEC_OP, required_operands |-> 1],
       [mnemonic |-> "jmp", opcode |-> JMP_OP, required_operands |-> 1],
       [mnemonic |-> "bne", opcode |-> BNE_OP, required_operands |-> 1],
       [mnemonic |-> "jsr", opcode |-> JSR_OP, required_operands |-> 1],
       [mnemonic |-> "red", opcode |-> RED_OP, required_operands |-> 1],
       [mnemonic |-> "prn", opcode |-> PRN_OP, required_operands |-> 1],
       [mnemonic |-> "rts", opcode |-> RTS_OP, required_operands |-> 0],
       [mnemonic |-> "stop", opcode |-> STOP_OP, required_operands |-> 0] >>

\* the entries of OPCODES with the mnemonic tok
OpcodeEntries(tok) == {i \in 1..Len(OPCODES) : OPCODES[i].mnemonic = tok}

lookup_opcode_entry(entries) ==
    IF entries # {}
    THEN [opcode |-> OPCODES[CHOOSE i \in entries : TRUE].opcode,
          required |-> OPCODES[CHOOSE i \in entries : TRUE].required_operands]
    ELSE [opcode |-> UNKNOWN_OP, required |-> 0]

\* lookup_opcode_by_mnemonic(tok, &out_required): [opcode, required]
lookup_opcode_by_mnemonic(tok) == lookup_opcode_entry(OpcodeEntries(tok))

\* (directive_t) -1 is "NO_DIRECTIVE"
lookup_directive_by_token(tok) ==
    CASE tok = ".data" -> "DATA_DIRECTIVE"
      [] tok = ".string" -> "STRING_DIRECTIVE"
      [] tok = ".mat" -> "MATRIX_DIRECTIVE"
      [] tok = ".entry" -> "ENTRY_DIRECTIVE"
      [] tok = ".extern" -> "EXTERN_DIRECTIVE"
      [] OTHER -> "NO_DIRECTIVE"

RECURSIVE DataLoop(_, _)
RECURSIVE DataToken(_, _)
RECURSIVE DataItem(_, _, _)

\* parse_data_directive_payload, a token converted by parse_integer (lines 257-259)
DataItem(t, values, r) ==
    IF r.err # "ERROR_OK" THEN [err |-> r.err, values |-> values]
    ELSE DataLoop(t.cursor, Append(values, r.val))

\* parse_data_directive_payload, the token next_token returned (lines 253-257)
DataToken(t, values) ==
    IF t.null THEN [err |-> "ERROR_OK", values |-> values]
    ELSE IF t.token = "" THEN [err |-> "ERROR_TRAILING_CHARACTERS", values |-> values]
    ELSE IF Len(values) >= MAX_DATA_ITEMS
    THEN [err |-> "ERROR_DATA_OVERFLOW", values |-> values]
    ELSE DataItem(t, values, parse_integer(t.token))

\* the loop of parse_data_directive_payload: [err, values]
DataLoop(payload, values) == DataToken(next_token(payload, {","}), values)

\* parse_data_directive_payload(payload, out_values): [err, values]
parse_data_directive_payload(payload) ==
    IF payload = "" THEN [err |-> "ERROR_EXPECTED_OPERAND", values |-> <<>>]
    ELSE DataLoop(payload, <<>>)

MAX_STRING_LEN == MAX_LINE_LENGTH - 2

\* parse_string_directive_payload once the closing quote was looked for
parse_string_end(start, end) ==
    IF end = 0 THEN [err |-> "ERROR_INVALID_STRING_FORMAT", dest |-> <<>>]
    ELSE IF end - 2 >= MAX_STRING_LEN THEN [err |-> "ERROR_STRING_TOO_LONG", dest |-> <<>>]
    ELSE [err |-> IF skip_leading_whitespace(From(start, end + 1)) # ""
                  THEN "ERROR_TRAILING_CHARACTERS" ELSE "ERROR_OK",
          dest |-> Codes(SubSeq(start, 2, end - 1))]

parse_string_start(start) ==
    IF Ch(start, 1) # "\"" THEN [err |-> "ERROR_INVALID_STRING_FORMAT", dest |-> <<>>]
    ELSE parse_string_end(start, strrchr(start, 2, "\""))

\* parse_string_directive_payload(payload, dest): [err, dest], dest the
\* characters copied, <<>> when nothing was copied
parse_string_directive_payload(payload) ==
    parse_string_start(skip_leading_whitespace(payload))

\* extract_bracketed_integer once the content was converted (lines 308-315)
extract_content(cursor, close_bracket, r) ==
    IF r.err # "ERROR_OK"
    THEN [err |-> r.err, set |-> TRUE, val |-> r.val, cursor |-> cursor]
    ELSE [err |-> "ERROR_OK", set |-> TRUE, val |-> r.val,
          cursor |-> From(cursor, close_bracket + 1)]

extract_close(cursor, open_bracket, close_bracket) ==
    IF close_bracket = 0
    THEN [err |-> "ERROR_INVALID_MATRIX_DIMENSIONS", set |-> FALSE, val |-> 0,
          cursor |-> cursor]
    ELSE extract_content(cursor, close_bracket,
                         parse_integer(SubSeq(cursor, open_bracket + 1, close_bracket - 1)))

extract_open(cursor, open_bracket) ==
    IF open_bracket = 0
    THEN [err |-> "ERROR_INVALID_MATRIX_DIMENSIONS", set |-> FALSE, val |-> 0,
          cursor |-> cursor]
    ELSE extract_close(cursor, open_bracket, strpbrk(cursor, open_bracket + 1, {"]"}))

\* extract_bracketed_integer(&cursor, out_val): [err, set, val, cursor]; set
\* says whether *out_val was written
extract_bracketed_integer(cursor) == extract_open(cursor, strpbrk(cursor, 1, {"["}))

RECURSIVE CellLoop(_, _, _)
RECURSIVE CellToken(_, _, _)
RECURSIVE CellItem(_, _, _, _)

CellItem(t, cells, total_cells, r) ==
    IF r.err # "ERROR_OK" THEN [err |-> r.err, cells |-> cells, cursor |-> t.cursor]
    ELSE CellLoop(t.cursor, Append(cells, r.val), total_cells)

CellToken(t, cells, total_cells) ==
    IF t.null \/ t.token = ""
    THEN [err |-> "ERROR_INVALID_MATRIX_INITIALIZATION", cells |-> cells, cursor |-> t.cursor]
    ELSE CellItem(t, cells, total_cells, parse_integer(t.token))

\* the initializer loop of parse_matrix_directive_payload: [err, cells, cursor]
CellLoop(cursor, cells, total_cells) ==
    IF Len(cells) >= total_cells THEN [err |-> "ERROR_OK", cells |-> cells, cursor |-> cursor]
    ELSE CellToken(next_token(cursor, {","}), cells, total_cells)

\* parse_matrix_directive_payload after the initializer loop (lines 357-360)
parse_matrix_extra(r, c, l) ==
    IF l.err # "ERROR_OK"
    THEN [err |-> l.err, rows |-> r.val, cols |-> c.val, cells |-> l.cells]
    ELSE IF ~next_token(l.cursor, {","}).null
    THEN [err |-> "ERROR_INVALID_MATRIX_INITIALIZATION", rows |-> r.val, cols |-> c.val,
          cells |-> l.cells]
    ELSE [err |-> "ERROR_OK", rows |-> r.val, cols |-> c.val, cells |-> l.cells]

\* parse_matrix_directive_payload after the dimensions (lines 338-355)
parse_matrix_cells(r, c, cursor) ==
    IF cursor = ""
    THEN [err |-> "ERROR_OK", rows |-> r.val, cols |-> c.val,
          cells |-> [i \in 1..(r.val * c.val) |-> 0]]
    ELSE parse_matrix_extra(r, c, CellLoop(cursor, <<>>, r.val * c.val))

parse_matrix_cols(r, c) ==
    IF c.err # "ERROR_OK"
    THEN [err |-> c.err, rows |-> r.val, cols |-> c.val, cells |-> <<>>]
    ELSE IF r.val <= 0 \/ r.val > MAX_MATRIX_ROWS \/ c.val <= 0 \/ c.val > MAX_MATRIX_COLS
    THEN [err |-> "ERROR_INVALID_MATRIX_DIMENSIONS", rows |-> r.val, cols |-> c.val,
          cells |-> <<>>]
    ELSE parse_matrix_cells(r, c, skip_leading_whitespace(c.cursor))

parse_matrix_rows(r) ==
    IF r.err # "ERROR_OK" THEN [err |-> r.err, rows |-> r.val, cols |-> 0, cells |-> <<>>]
    ELSE parse_matrix_cols(r, extract_bracketed_integer(r.cursor))

\* parse_matrix_directive_payload(payload, out_mat): [err, rows, cols, cells]
parse_matrix_directive_payload(payload) ==
    parse_matrix_rows(extract_bracketed_integer(payload))

validate_addressing_modes(p) ==
    CASE p.opcode \in {MOV_OP, CMP_OP, ADD_OP, SUB_OP} ->
            IF p.dest_op.mode = IMMEDIATE THEN "ERROR_INVALID_ADDRESSING_MODE" ELSE "ERROR_OK"
      [] p.opcode = LEA_OP ->
            IF p.source_op.mode # DIRECT /\ p.source_op.mode # MATRIX_ACCESS
            THEN "ERROR_INVALID_ADDRESSING_MODE"
            ELSE IF p.dest_op.mode = IMMEDIATE THEN "ERROR_INVALID_ADDRESSING_MODE"
            ELSE "ERROR_OK"
      [] p.opcode \in {CLR_OP, NOT_OP, INC_OP, DEC_OP, JMP_OP, BNE_OP, JSR_OP, RED_OP} ->
            IF p.source_op.mode = IMMEDIATE THEN "ERROR_INVALID_ADDRESSING_MODE" ELSE "ERROR_OK"
      [] p.opcode \in {PRN_OP, RTS_OP, STOP_OP} -> "ERROR_OK"
      [] OTHER -> "ERROR_INVALID_ADDRESSING_MODE"

\* the code returned after the last operand: next_token(...) ? TRAILING : OK
trailing_characters(cursor, out) ==
    [out EXCEPT !.st = IF ~next_token(cursor, WhiteSpace).null
                       THEN "ERROR_TRAILING_CHARACTERS" ELSE "ERROR_OK"]

\* parse_directive_operand, the operand of .entry and .extern (lines 433-437)
parse_symbol_operand(t, out) ==
    IF t.null \/ ~is_valid_label(t.token) THEN [out EXCEPT !.st = "ERROR_INVALID_LABEL"]
    ELSE trailing_characters(t.cursor, [out EXCEPT !.symbol_name = t.token])

data_operands(out, r) == [out EXCEPT !.st = r.err, !.data = r.values]

string_operands(out, r) == [out EXCEPT !.st = r.err, !.string_val = r.dest]

mat_operands(out, r) ==
    [out EXCEPT !.st = r.err, !.rows = r.rows, !.cols = r.cols, !.cells = r.cells]

\* parse_directive_operand(cursor, out): out afterwards, out.st the code returned
parse_directive_operand(cursor, out) ==
    CASE out.type = "DATA_DIRECTIVE" ->
            data_operands(out, parse_data_directive_payload(cursor))
      [] out.type = "STRING_DIRECTIVE" ->
            string_operands(out, parse_string_directive_payload(cursor))
      [] out.type = "MATRIX_DIRECTIVE" ->
            mat_operands(out, parse_matrix_directive_payload(cursor))
      [] out.type \in {"ENTRY_DIRECTIVE", "EXTERN_DIRECTIVE"} ->
            parse_symbol_operand(next_token(cursor, WhiteSpace), out)
      [] OTHER -> [out EXCEPT !.st = "ERROR_INVALID_DIRECTIVE"]

\* parse_instruction_operands, the second operand parsed (lines 464-469)
dest_operand(cursor, out, r) ==
    IF r.err # "ERROR_OK" THEN [out EXCEPT !.dest_op = r.op, !.st = r.err]
    ELSE trailing_characters(cursor, [out EXCEPT !.dest_op = r.op])

\* parse_instruction_operands, the second token (lines 461-464)
dest_token(t, out) ==
    IF t.null THEN [out EXCEPT !.st = "ERROR_EXPECTED_OPERAND"]
    ELSE dest_operand(t.cursor, out, parse_operand(t.token, out.dest_op))

\* parse_instruction_operands, the first operand parsed (lines 457-469)
source_operand(cursor, out, r) ==
    IF r.err # "ERROR_OK" THEN [out EXCEPT !.source_op = r.op, !.st = r.err]
    ELSE IF out.n_operands >= 2
    THEN dest_token(next_token(cursor, WhiteSpace), [out EXCEPT !.source_op = r.op])
    ELSE trailing_characters(cursor, [out EXCEPT !.source_op = r.op])

\* parse_instruction_operands, the first token (lines 454-457)
source_token(t, out) ==
    IF t.null THEN [out EXCEPT !.st = "ERROR_EXPECTED_OPERAND"]
    ELSE source_operand(t.cursor, out, parse_operand(t.token, out.source_op))

\* parse_instruction_operands(cursor, out, required_operands): out afterwards,
\* out.st the code returned
parse_instruction_operands(cursor, out, required_operands) ==
    IF required_operands >= 1
    THEN source_token(next_token(cursor, {","}),
                      [out EXCEPT !.n_operands = required_operands])
    ELSE trailing_characters(cursor, [out EXCEPT !.n_operands = required_operands])

\* parse_line, the operands parsed (lines 522-525)
parse_validate(r) ==
    IF r.st # "ERROR_OK" THEN r ELSE [r EXCEPT !.st = validate_addressing_modes(r)]

\* parse_line, an instruction whose mnemonic was looked up (lines 517-525)
parse_instruction(cursor, out, l) ==
    IF l.opcode = UNKNOWN_OP
    THEN [out EXCEPT !.opcode = l.opcode, !.st = "ERROR_UNKNOWN_COMMAND_NAME"]
    ELSE parse_validate(
             parse_instruction_operands(cursor, [out EXCEPT !.opcode = l.opcode], l.required))

\* parse_line, a directive whose token was looked up (lines 508-513)
parse_directive(cursor, out) ==
    IF out.type = "NO_DIRECTIVE" THEN [out EXCEPT !.st = "ERROR_INVALID_DIRECTIVE"]
    ELSE parse_directive_operand(cursor, out)

\* parse_line, the statement after the optional label (lines 506-525)
parse_statement(token, cursor, out) ==
    IF Ch(token, 1) = "."
    THEN parse_directive(cursor, [out EXCEPT !.kind = "LINE_DIRECTIVE",
                                             !.type = lookup_directive_by_token(token)])
    ELSE parse_instruction(cursor, [out EXCEPT !.kind = "LINE_OPERATION"],
                           lookup_opcode_by_mnemonic(token))

\* parse_line, the first token with its ':' stripped (lines 497-504); t is where
\* the token and the cursor of the statement are
parse_label(label, t) ==
    IF ~is_valid_label(label) THEN [ZeroLine EXCEPT !.st = "ERROR_ILLEGAL_LABEL"]
    ELSE IF t.null
    THEN [ZeroLine EXCEPT !.label = label, !.st = "ERROR_INVALID_OPERAND_SYNTAX"]
    ELSE parse_statement(t.token, t.cursor, [ZeroLine EXCEPT !.label = label])

\* parse_line, the first token (lines 493-525)
parse_first_token(t) ==
    IF Len(t.token) > 0 /\ Ch(t.token, Len(t.token)) = ":"
    THEN parse_label(SubSeq(t.token, 1, Len(t.token) - 1), next_token(t.cursor, WhiteSpace))
    ELSE parse_statement(t.token, t.cursor, ZeroLine)

\* parse_line, the working copy without comment and surrounding white space
\* (lines 486-525)
parse_working_copy(cursor) ==
    IF cursor = "" THEN [ZeroLine EXCEPT !.kind = "LINE_EMPTY_OR_COMMENT"]
    ELSE parse_first_token(next_token(cursor, WhiteSpace))

\* parse_line(line, out): *out afterwards, with the code returned in st
parse_line(line, out) ==
    IF Len(line) >= MAX_LINE_LENGTH THEN [out EXCEPT !.st = "ERROR_LINE_TOO_LONG"]
    ELSE parse_working_copy(
             skip_leading_whitespace(
                 trim_trailing_whitespace_inplace(remove_comment_from_semicolon(line))))

(***************************************************************************)
(* State.                                                                  *)
(***************************************************************************)
VARIABLES
    am_lines,      \* the .am file the two passes read: a sequence of parsed lines
    fp_pc,         \* first_pass: "idle", "scan" (in the fgets loop), "done"
    line_no,       \* first_pass: lines read so far
    ic,            \* first_pass: instruction counter
    dc,            \* first_pass: data counter
    errors,        \* first_pass: error count
    symtab,        \* the symbol table
    fp_ret,        \* first_pass: return value
    sp_pc,         \* second_pass: "idle", "scan", "done"
    sp_line_no,    \* second_pass: lines read so far
    ctx,           \* second_pass_ctx_t: code_image, data_image, code_pos, data_pos, ext_list
    sp_ret,        \* second_pass: return value
    files,         \* the output files on disk: name -> contents
    as_file,       \* preprocess_file: the lines of the input file
    pp_pc,         \* preprocess_file: "idle", "scan", "done"
    line_num,      \* preprocess_file: lines read so far
    in_macro_definition,
    current_macro, \* name of the macro current_macro points to, "" for NULL
    macro_table,   \* hash table: macro name -> body (sequence of lines)
    am_file,       \* lines written to the output file so far
    am_exists,     \* whether the output file exists on disk
    success,
    pp_ret,        \* preprocess_file: return value
    am_text,       \* the text of the .am file, when the passes read it as text
    am_pos,        \* the number of its characters fgets has consumed
    line_buf,      \* first_pass: the buffer fgets last filled
    as_text,       \* the text of the .as file, when preprocess_file reads it as text
    as_pos,        \* the number of its characters fgets has consumed
    b4_w,          \* word_to_base4: the word w
    b4_length,     \* word_to_base4: the size of the buffer out
    b4_out,        \* word_to_base4: the letters written to out, before the NUL
    ht,            \* a hash table of util_hash.c, "NULL" before hash_create
    ht_call,       \* the last call on it: the function, the key and the value
    ht_before,     \* the table as that call found it
    ht_ret,        \* the value the last hash_put or hash_remove returned
    ht_stored,     \* for every key, the value a hash_put that returned 0 gave it
                   \* last and no hash_remove took since, NULL when there is none
    v,             \* a vec_t of util_vec.c: data, len, cap
    vec_call,      \* the last vec_push: its vector and element, NULL or not
    v_before,      \* the vector as that call found it
    vec_ret,       \* the value the last vec_push returned
    pushed,        \* the elements of the vec_push calls that returned 0, in order
    argc,          \* main: the number of arguments, the program name included
    drv_i,         \* main: the loop index i
    drv_pc,        \* main: the statement it is at
    overall_result,
    symbol_table,  \* main: "NULL", or the table symtab_create returned
    exit_status,   \* the value main returned, -1 while it runs
    phases         \* for each argument, the phases called for it and their results

fpVars == <<fp_pc, line_no, ic, dc, errors, symtab, fp_ret>>
spVars == <<sp_pc, sp_line_no, ctx, sp_ret>>
asmVars == <<am_lines, fpVars, spVars>>
preVars == <<as_text, as_pos, as_file, pp_pc, line_num, in_macro_definition, current_macro,
             macro_table, am_file, am_exists, success, pp_ret>>
textVars == <<am_text, am_pos, line_buf>>
b4Vars == <<b4_w, b4_length, b4_out>>
hashVars == <<ht, ht_call, ht_before, ht_ret, ht_stored>>
vecVars == <<v, vec_call, v_before, vec_ret, pushed>>
drvVars == <<argc, drv_i, drv_pc, overall_result, symbol_table, exit_status, phases>>
unitVars == <<b4Vars, hashVars, vecVars, drvVars>>
vars == <<asmVars, preVars, files, textVars, unitVars>>

(***************************************************************************)
(* first_pass.c: first_pass.                                               *)
(***************************************************************************)
\* The label part of one loop iteration (lines 116-140): fp is [ic, dc, errors, symtab].
first_pass_label(fp, pl) ==
    IF pl.label = "" THEN fp
    ELSE IF pl.kind = "LINE_OPERATION"
    THEN LET r == symtab_insert(fp.symtab, pl.label, ADDRESS_BASE + fp.ic, {SYM_CODE})
         IN [fp EXCEPT !.symtab = r.st,
                       !.errors = IF r.ret = 0 THEN @ + 1 ELSE @]
    ELSE IF pl.kind = "LINE_DIRECTIVE" /\ IsDataDirective(pl)
    THEN LET r == symtab_insert(fp.symtab, pl.label, ADDRESS_BASE + fp.dc, {SYM_DATA})
         IN [fp EXCEPT !.symtab = r.st,
                       !.errors = IF r.ret = 0 THEN @ + 1 ELSE @]
    ELSE fp

\* The statement part of one loop iteration (lines 142-184).
first_pass_body(fp, pl) ==
    IF pl.kind = "LINE_OPERATION"
    THEN [fp EXCEPT !.ic = @ + calc_instruction_words(pl)]
    ELSE IF IsDataDirective(pl)
    THEN [fp EXCEPT !.dc = @ + calc_directive_words(pl)]
    ELSE IF pl.type = "EXTERN_DIRECTIVE"
    THEN LET r == symtab_insert(fp.symtab, pl.symbol_name, 0, {SYM_EXTERN})
         IN [fp EXCEPT !.symtab = r.st,
                       !.errors = IF r.ret = 0 THEN @ + 1 ELSE @]
    ELSE IF pl.type = "ENTRY_DIRECTIVE"
    THEN LET r == symtab_insert(fp.symtab, pl.symbol_name, 0, {SYM_ENTRY})
         IN [fp EXCEPT !.symtab = r.st,
                       !.errors = IF r.ret = 0 THEN @ + 1 ELSE @]
    ELSE fp

\* the loop with a parse error that is reported but not counted
first_pass_line_uncounted(fp, pl) ==
    IF pl.st # "ERROR_OK" THEN fp
    ELSE IF pl.kind = "LINE_EMPTY_OR_COMMENT" THEN fp
    ELSE first_pass_body(first_pass_label(fp, pl), pl)

\* One iteration of the fgets loop (lines 99-185).
first_pass_line(fp, pl) ==
    IF pl.st # "ERROR_OK" THEN [fp EXCEPT !.errors = @ + 1]
    ELSE IF pl.kind = "LINE_EMPTY_OR_COMMENT" THEN fp
    ELSE first_pass_body(first_pass_label(fp, pl), pl)

\* errors added by the final validation loop (lines 193-208)
RECURSIVE ValidationErrors(_, _)
ValidationErrors(syms, i) ==
    IF i > Len(syms) THEN 0
    ELSE LET ok == SYM_ENTRY \in syms[i].flags
             defined == syms[i].flags \cap {SYM_CODE, SYM_DATA} # {}
             ext == SYM_EXTERN \in syms[i].flags
         IN (IF ok /\ ~defined THEN 1 ELSE 0) + (IF ok /\ ext THEN 1 ELSE 0)
            + ValidationErrors(syms, i + 1)

\* After the loop (lines 187-210): rebase, final validation.
first_pass_finish(fp) ==
    LET st2 == symtab_bump_data_addresses(fp.symtab, fp.ic)
    IN [fp EXCEPT !.symtab = st2,
                  !.errors = @ + ValidationErrors(symtab_iter(st2), 1)]

FpStart == [ic |-> 0, dc |-> 0, errors |-> 0, symtab |-> symtab_create]

\* the whole first pass over a file
RECURSIVE FirstPassFrom(_, _, _)
FirstPassFrom(fp, lines, i) ==
    IF i > Len(lines) THEN first_pass_finish(fp)
    ELSE FirstPassFrom(first_pass_line(fp, lines[i]), lines, i + 1)

first_pass(lines) == FirstPassFrom(FpStart, lines, 1)

FpState == [ic |-> ic, dc |-> dc, errors |-> errors, symtab |-> symtab]

FpLine ==
    /\ fp_pc = "scan"
    /\ line_no < Len(am_lines)
    /\ LET r == first_pass_line(FpState, am_lines[line_no + 1])
       IN /\ ic' = r.ic
          /\ dc' = r.dc
          /\ errors' = r.errors
          /\ symtab' = r.symtab
    /\ line_no' = line_no + 1
    /\ UNCHANGED <<am_lines, fp_pc, fp_ret, spVars, preVars, files, textVars, unitVars>>

FpEof ==
    /\ fp_pc = "scan"
    /\ line_no = Len(am_lines)
    /\ LET r == first_pass_finish(FpState)
       IN /\ symtab' = r.symtab
          /\ errors' = r.errors
          /\ fp_ret' = r.errors
    /\ fp_pc' = "done"
    /\ UNCHANGED <<am_lines, line_no, ic, dc, spVars, preVars, files, textVars, unitVars>>

(***************************************************************************)
(* second_pass.c                                                           *)
(***************************************************************************)
\* word_to_base4(w, out, length): the length - 1 letters written to out
\* the letters of the 2-bit groups of w, the least significant group first
RECURSIVE Base4Digits_lsb_first(_, _)
Base4Digits_lsb_first(w, n) ==
    IF n = 0 THEN <<>>
    ELSE <<(<<"a", "b", "c", "d">>[(w % 4) + 1])>> \o Base4Digits_lsb_first(w \div 4, n - 1)

RECURSIVE Base4Digits(_, _)
Base4Digits(w, n) ==
    IF n = 0 THEN <<>>
    ELSE Append(Base4Digits(w \div 4, n - 1), <<"a", "b", "c", "d">>[(w % 4) + 1])

word_to_base4(w, length) == Base4Digits(ToWord(w), length - 1)

\* ctx->code_image[ctx->code_pos++] = w
CodePush(c, w) == [c EXCEPT !.code_image = Append(@, w), !.code_pos = @ + 1]

\* ctx->data_image[ctx->data_pos++] = w
DataPush(c, w) == [c EXCEPT !.data_image = Append(@, w), !.data_pos = @ + 1]

\* A variant of add_extern that records the index of the word, not its address.
add_extern_no_base(c, name, addr) ==
    [c EXCEPT !.ext_list = Append(@, [name |-> name, address |-> addr - ADDRESS_BASE])]

add_extern(c, name, addr) ==
    [c EXCEPT !.ext_list = Append(@, [name |-> name, address |-> addr])]

\* the base word of a Direct or MatrixAccess operand (lines 209-219, 223-233)
LabelWord(c, op, st, addr_of_next_word) ==
    LET sym == symtab_lookup(st, op.label)
    IN IF SYM_EXTERN \in sym.flags
       THEN CodePush(add_extern(c, op.label, addr_of_next_word), WORD_SET_ARE(0, ARE_E))
       ELSE CodePush(c, WORD_SET_ARE(ToWord(Shl(sym.address, 2)), ARE_R))

\* encode_operand: [used |-> words used or -1, ctx |-> the context after]
encode_operand(c, op, st, addr_of_next_word, is_source) ==
    CASE op.mode = IMMEDIATE ->
           [used |-> 1,
            ctx |-> CodePush(c, WORD_SET_ARE(ToWord(Shl(op.immediate_value, 2)), ARE_A))]
      [] op.mode = DIRECT ->
           IF ~symtab_has(st, op.label) THEN [used |-> -1, ctx |-> c]
           ELSE [used |-> 1, ctx |-> LabelWord(c, op, st, addr_of_next_word)]
      [] op.mode = MATRIX_ACCESS ->
           IF ~symtab_has(st, op.label) THEN [used |-> -1, ctx |-> c]
           ELSE [used |-> 2,
                 ctx |-> CodePush(LabelWord(c, op, st, addr_of_next_word),
                            WORD_SET_ARE(ToWord(BitOr(Shl(op.row_reg, 6), Shl(op.col_reg, 2))),
                                         ARE_A))]
      [] op.mode = REGISTER_DIRECT ->
           [used |-> 1,
            ctx |-> CodePush(c, IF is_source
                                THEN ToWord(BitOr(Shl(op.reg_num, 6), ARE_A))
                                ELSE ToWord(BitOr(Shl(op.reg_num, 2), ARE_A)))]
      [] OTHER -> [used |-> 0, ctx |-> c]

\* encode_instruction: [ret |-> 0 or -1, ctx |-> the context after]
encode_instruction(c, pl, st) ==
    LET src == pl.source_op
        dst == pl.dest_op
        n_ops == pl.n_operands
    IN IF n_ops = 0
       THEN [ret |-> 0, ctx |-> CodePush(c, FIRST_WORD(pl.opcode, 0, 0, ARE_A))]
       ELSE LET c1 == CodePush(c, FIRST_WORD(pl.opcode,
                                             IF n_ops = 2 THEN src.mode ELSE 0,
                                             IF n_ops > 1 THEN dst.mode ELSE src.mode,
                                             ARE_A))
            IN IF n_ops = 2 /\ src.mode = REGISTER_DIRECT /\ dst.mode = REGISTER_DIRECT
               THEN [ret |-> 0,
                     ctx |-> CodePush(c1, ToWord(BitOr(BitOr(Shl(src.reg_num, 6),
                                                             Shl(dst.reg_num, 2)), ARE_A)))]
               ELSE LET r1 == encode_operand(c1, src, st, c1.code_pos + ADDRESS_BASE, TRUE)
                    IN IF r1.used < 0 THEN [ret |-> -1, ctx |-> r1.ctx]
                       ELSE IF n_ops >= 2
                       THEN LET r2 == encode_operand(r1.ctx, dst, st,
                                                     r1.ctx.code_pos + ADDRESS_BASE, FALSE)
                            IN IF r2.used < 0 THEN [ret |-> -1, ctx |-> r2.ctx]
                               ELSE [ret |-> 0, ctx |-> r2.ctx]
                       ELSE [ret |-> 0, ctx |-> r1.ctx]

\* the loop "for (i = ...; i < n; i++) data_image[data_pos++] = ws[i]", in one step
PushAll(c, ws, i) ==
    IF i > Len(ws) THEN c
    ELSE [c EXCEPT !.data_image = @ \o [k \in 1..(Len(ws) - i + 1) |-> ToWord(ws[k + i - 1])],
                   !.data_pos = @ + (Len(ws) - i + 1)]

encode_data(c, pl) ==
    CASE pl.type = "DATA_DIRECTIVE" -> PushAll(c, pl.data, 1)
      [] pl.type = "STRING_DIRECTIVE" -> DataPush(PushAll(c, pl.string_val, 1), 0)
      [] pl.type = "MATRIX_DIRECTIVE" -> PushAll(c, SubSeq(pl.cells, 1, pl.rows * pl.cols), 1)
      [] OTHER -> c

\* the .ob file: the header and one [address, word] line per code and data word
write_ob_file(c) ==
    [header |-> <<word_to_base4(c.code_pos, 4), word_to_base4(c.data_pos, 3)>>,
     body |-> [i \in 1..(c.code_pos + c.data_pos) |->
                 IF i <= c.code_pos
                 THEN [address |-> word_to_base4(ADDRESS_BASE + (i - 1), 5),
                       word |-> word_to_base4(c.code_image[i], 6)]
                 ELSE [address |-> word_to_base4(ADDRESS_BASE + (i - c.code_pos - 1) + c.code_pos, 5),
                       word |-> word_to_base4(c.data_image[i - c.code_pos], 6)]]]

RECURSIVE EntLines(_, _)
EntLines(syms, i) ==
    IF i > Len(syms) THEN <<>>
    ELSE (IF SYM_ENTRY \in syms[i].flags
          THEN <<[name |-> syms[i].name, address |-> word_to_base4(syms[i].address, 5)]>>
          ELSE <<>>) \o EntLines(syms, i + 1)

\* the .ent file: one line per Entry symbol, in iteration order
write_ent_file(st) == EntLines(symtab_iter(st), 1)

\* the .ext file: one line per recorded usage
write_ext_file(c) ==
    [i \in 1..Len(c.ext_list) |->
       [name |-> c.ext_list[i].name, address |-> word_to_base4(c.ext_list[i].address, 5)]]

\* no table: before hash_create and after hash_destroy
NoTable == [capacity |-> 0, size |-> 0, tbl |-> [i \in {} |-> <<>>]]

ZeroCtx == [code_image |-> <<>>, data_image |-> <<>>, code_pos |-> 0, data_pos |-> 0,
            ext_list |-> <<>>]

NoFiles == [ob_exists |-> FALSE, ob |-> [header |-> <<>>, body |-> <<>>],
            ent_exists |-> FALSE, ent |-> <<>>,
            ext_exists |-> FALSE, ext |-> <<>>]

\* main calls second_pass once first_pass returned 0
SpStart ==
    /\ fp_pc = "done"
    /\ fp_ret = 0
    /\ sp_pc = "idle"
    /\ sp_pc' = "scan"
    /\ ctx' = ZeroCtx
    /\ sp_line_no' = 0
    /\ UNCHANGED <<am_lines, fpVars, sp_ret, preVars, files, textVars, unitVars>>

\* the stores of one iteration left the context c and encode_instruction
\* returned ret.  code_image and data_image have IMAGE_LENGTH elements and no
\* store checks its index: a store at or after IMAGE_LENGTH is undefined
\* behaviour.  ctx is a local of second_pass, so the words land in the fields
\* after the array (code_pos follows data_image) and in the stack after ctx:
\* the program may stop there, go on as if nothing happened, or go on with
\* code_pos holding the word stored at data_image[IMAGE_LENGTH].
SpStored(c, ret) ==
    IF c.code_pos > IMAGE_LENGTH \/ c.data_pos > IMAGE_LENGTH
    THEN \/ sp_pc' = "crashed" /\ ctx' = c /\ UNCHANGED sp_ret
         \/ ctx' = c /\ UNCHANGED <<sp_pc, sp_ret>>
         \/ /\ c.data_pos > IMAGE_LENGTH
            /\ c.data_image[IMAGE_LENGTH + 1] <= Len(c.code_image)
            /\ ctx' = [c EXCEPT !.code_pos = c.data_image[IMAGE_LENGTH + 1]]
            /\ UNCHANGED <<sp_pc, sp_ret>>
    ELSE /\ ctx' = c
         /\ IF ret < 0
            THEN sp_pc' = "done" /\ sp_ret' = -1
            ELSE UNCHANGED <<sp_pc, sp_ret>>

SpEncoded(r) == SpStored(r.ctx, r.ret)

\* one iteration of the fgets loop (lines 492-510)
SpLine ==
    /\ sp_pc = "scan"
    /\ sp_line_no < Len(am_lines)
    /\ sp_line_no' = sp_line_no + 1
    /\ LET pl == am_lines[sp_line_no + 1]
       IN IF pl.st # "ERROR_OK" THEN UNCHANGED <<ctx, sp_pc, sp_ret>>
          ELSE IF pl.kind = "LINE_OPERATION"
          THEN SpEncoded(encode_instruction(ctx, pl, symtab))
          ELSE IF pl.kind = "LINE_DIRECTIVE" /\ IsDataDirective(pl)
          THEN SpStored(encode_data(ctx, pl), 0)
          ELSE UNCHANGED <<ctx, sp_pc, sp_ret>>
    /\ UNCHANGED <<am_lines, fpVars, preVars, files, textVars, unitVars>>

\* the writer that fails, if any: create_file_path or fopen of write_ob_file
\* and of write_ent_file can return NULL; write_ext_file returns 0 before
\* either when there is no usage to write
WriteFailures(c) ==
    {"none", "ob", "ent"} \cup (IF Len(c.ext_list) # 0 THEN {"ext"} ELSE {})

\* the files on disk after write_ob_file || write_ent_file || write_ext_file
\* (lines 515-517): a writer that failed created no file, the writers after
\* it are not called, and the files written before it stay
write_outputs(c, st, failed) ==
    [ob_exists |-> failed # "ob",
     ob |-> IF failed # "ob" THEN write_ob_file(c) ELSE NoFiles.ob,
     ent_exists |-> failed \notin {"ob", "ent"} /\ write_ent_file(st) # <<>>,
     ent |-> IF failed \notin {"ob", "ent"} THEN write_ent_file(st) ELSE <<>>,
     ext_exists |-> failed = "none" /\ Len(c.ext_list) # 0,
     ext |-> IF failed = "none" THEN write_ext_file(c) ELSE <<>>]

\* after the loop (lines 512-524): the three writers
SpEof ==
    /\ sp_pc = "scan"
    /\ sp_line_no = Len(am_lines)
    /\ \E failed \in WriteFailures(ctx) :
         /\ files' = write_outputs(ctx, symtab, failed)
         /\ sp_ret' = IF failed = "none" THEN 0 ELSE -1
    /\ sp_pc' = "done"
    /\ UNCHANGED <<am_lines, fpVars, sp_line_no, ctx, preVars, textVars, unitVars>>

\* word_to_base4, the hash table, the vector and main are not running
B4Idle ==
    /\ b4_w = 0
    /\ b4_length = 0
    /\ b4_out = <<>>

HashIdle ==
    /\ ht = NoTable
    /\ ht_call = <<>>
    /\ ht_before = NoTable
    /\ ht_ret = 0
    /\ ht_stored = <<>>

VecIdle ==
    /\ v = [data |-> <<>>, len |-> 0, cap |-> 0]
    /\ vec_call = <<>>
    /\ v_before = [data |-> <<>>, len |-> 0, cap |-> 0]
    /\ vec_ret = 0
    /\ pushed = <<>>

DrvIdle ==
    /\ argc = 0
    /\ drv_i = 0
    /\ drv_pc = "idle"
    /\ overall_result = 0
    /\ symbol_table = "NULL"
    /\ exit_status = -1
    /\ phases = <<>>

UnitIdle == B4Idle /\ HashIdle /\ VecIdle /\ DrvIdle

\* the passes read parsed lines, not text
TextIdle ==
    /\ am_text = ""
    /\ am_pos = 0
    /\ line_buf = ""

PreIdle ==
    /\ as_text = ""
    /\ as_pos = 0
    /\ as_file = <<>>
    /\ pp_pc = "idle"
    /\ line_num = 0
    /\ in_macro_definition = FALSE
    /\ current_macro = ""
    /\ macro_table = NoTable
    /\ am_file = <<>>
    /\ am_exists = FALSE
    /\ success = TRUE
    /\ pp_ret = 0

AsmInit ==
    /\ am_lines \in [1..MaxLines -> AsmLines]
    /\ fp_pc = "scan"
    /\ line_no = 0
    /\ ic = 0
    /\ dc = 0
    /\ errors = 0
    /\ symtab = symtab_create
    /\ fp_ret = 0
    /\ sp_pc = "idle"
    /\ sp_line_no = 0
    /\ ctx = ZeroCtx
    /\ sp_ret = 0
    /\ files = NoFiles
    /\ PreIdle
    /\ TextIdle
    /\ UnitIdle

AsmNext == FpLine \/ FpEof \/ SpStart \/ SpLine \/ SpEof

SpecAsm == AsmInit /\ [][AsmNext]_vars

(***************************************************************************)
(* The two passes over the text of the .am file: first_pass reads it with  *)
(* fgets into line_buf, a buffer of MAX_LINE_LENGTH characters, and hands  *)
(* each buffer to parse_line.                                              *)
(***************************************************************************)
\* fgets(line_buf, size, fp) with the file position after pos characters: the
\* characters up to and including the next newline, at most size - 1 of them
fgets(text, pos, size) ==
    LET nl == strpbrk(text, pos + 1, {"\n"})
        most == IF Len(text) < pos + size - 1 THEN Len(text) ELSE pos + size - 1
    IN SubSeq(text, pos + 1, IF nl # 0 /\ nl <= most THEN nl ELSE most)

\* s written n times
RECURSIVE Rep(_, _)
Rep(s, n) == IF n <= 0 THEN "" ELSE s \o Rep(s, n - 1)

\* a list of n decimals, the i-th being i modulo 10
RECURSIVE Items(_)
Items(n) ==
    IF n <= 1 THEN "1"
    ELSE Items(n - 1) \o "," \o Ch("0123456789", (n % 10) + 1)

OperandTexts == {"#1", "AB", "AB[r1][r2]", "r1"}
TwoOperandMnemonics == {"mov", "cmp", "add", "sub", "lea"}
OneOperandMnemonics == {"clr", "not", "inc", "dec", "jmp", "bne", "jsr", "red", "prn"}

InstructionLines ==
    {m \o " " \o s \o ", " \o d \o "\n" :
        m \in TwoOperandMnemonics, s \in OperandTexts, d \in OperandTexts}
    \cup {m \o " " \o s \o "\n" : m \in OneOperandMnemonics, s \in OperandTexts}
    \cup {"rts\n", "stop\n"}

OperandCountLines ==
    {"mov r1, r2, r3\n", "mov r1\n", "stop extra\n", "clr r3,\n", "prn #5,\n",
     "mov , r1\n", "mov r1, r2,\n", "mov r1,, r2\n", "clr , r3\n", "clr r3,,\n",
     "mov r1 r2\n", "mov r1 , r2\n", "inc\n", "foo r1\n", "AB: foo\n",
     "mov #x, r1\n", "mov r9, r1\n", "mov AB[r1], r2\n", "mov 1x[r1][r2], r2\n",
     "mov AB[r1][r8], r2\n"}

DataTexts ==
    {".data " \o Items(n) \o "\n" : n \in 1..MaxItems}
    \cup {".data 1,\n", ".data 1,,2\n", ".data ,1\n", ".data 1, x\n", ".data\n",
          ".data 5, -6\n", ".data +7\n", ".data 1 2\n", "BA: .data 1, 2, 3\n",
          ".string \"ab\"\n", ".string ab\n", ".string \"ab\" x\n", ".word 1\n"}

MatTexts ==
    {".mat [" \o r \o "][" \o c \o "]\n" :
        r \in {"0", "1", "2", "15", "16"}, c \in {"0", "1", "2", "15", "16"}}
    \cup {".mat [2][2] 1,2,3,4\n", ".mat [2][2] 1,2,3,4,\n", ".mat [2][2] 1,2,3,4,5\n",
          ".mat [2][2] 1,2,3\n", ".mat [2][2] 1,,3,4\n", ".mat [1][2] 7, 8\n",
          ".mat [1][2] 7, x\n", ".mat [a][2]\n", ".mat [1]\n", ".mat 1 2\n",
          "AB: .mat [2][3] 1,2,3,4,5,6\n", ".mat x[1]y[2] 5, 6\n"}

LabelTexts ==
    {l \o ": stop\n" :
        l \in {"A" \o Rep("b", MAX_LABEL_LENGTH - 2), "A" \o Rep("b", MAX_LABEL_LENGTH - 1),
               "A" \o Rep("b", MAX_LABEL_LENGTH), "", "A", "AB", "a1", "1label", "A_b",
               "mov", "r1", "mcro", "X"}}
    \cup {":\n", "AB:\n", ".entry AB\n", ".entry 1x\n", ".entry\n", ".extern X\n",
          ".extern X Y\n", "; comment\n", "\n", "   \n", "X: .entry AB\n"}

\* lines of more than MAX_LINE_LENGTH - 2 characters before the newline
LongLines ==
    {"stop" \o Rep(" ", n) \o "stop\n" : n \in (MAX_LINE_LENGTH - 9)..MaxPad}
    \cup {"stop" \o Rep(" ", n) \o "\n" : n \in (MAX_LINE_LENGTH - 6)..MaxPad}
    \cup {"stop ;" \o Rep("c", n) \o "\n" : n \in (MAX_LINE_LENGTH - 8)..MaxPad}

TextLines ==
    InstructionLines \cup OperandCountLines \cup DataTexts \cup MatTexts
    \cup LabelTexts \cup LongLines

\* whole programs: an entry and a data symbol, a negative immediate, data
\* that fills more than the data image, and a symbol defined after it
ExampleProgram == "MAIN: mov r1, r2\nstop\nVAL: .data 5\n.entry MAIN\n"

ProgramTexts ==
    {ExampleProgram,
     "prn #-1\n",
     "clr r3\nX: .mat [15][15]\n.mat [15][15]\n",
     "X: .mat [15][15]\nY: .data 1\njmp Y\n",
     ".extern AB\n.entry X\nX: jmp AB\n"}

\* the .am files: one line, or a line that defines or declares a symbol
\* followed by a line that uses one, or a whole program
TextFiles ==
    TextLines
    \cup ProgramTexts
    \cup {d \o u : d \in {"AB: mov r1, r2\n", "X: .data 5\n", ".extern AB\n", ".entry X\n",
                          "foo\n"},
                   u \in {"jmp AB\n", ".entry X\n", "lea X, r1\n", "AB: stop\n",
                          "prn #5", "X: .string \"a\"\n"}}

\* one iteration of the fgets loop of first_pass (lines 99-185) on the text
FpTextLine ==
    /\ fp_pc = "scan"
    /\ am_pos < Len(am_text)
    /\ line_buf' = fgets(am_text, am_pos, MAX_LINE_LENGTH)
    /\ am_pos' = am_pos + Len(line_buf')
    /\ LET pl == parse_line(line_buf', ZeroLine)
           r == first_pass_line(FpState, pl)
       IN /\ am_lines' = Append(am_lines, pl)
          /\ ic' = r.ic
          /\ dc' = r.dc
          /\ errors' = r.errors
          /\ symtab' = r.symtab
    /\ line_no' = line_no + 1
    /\ UNCHANGED <<am_text, fp_pc, fp_ret, spVars, preVars, files, unitVars>>

\* fgets returns NULL at the end of the text (lines 187-210)
FpTextEof ==
    /\ am_pos = Len(am_text)
    /\ FpEof

TextInit ==
    /\ am_text \in TextFiles
    /\ am_pos = 0
    /\ line_buf = ""
    /\ am_lines = <<>>
    /\ fp_pc = "scan"
    /\ line_no = 0
    /\ ic = 0
    /\ dc = 0
    /\ errors = 0
    /\ symtab = symtab_create
    /\ fp_ret = 0
    /\ sp_pc = "idle"
    /\ sp_line_no = 0
    /\ ctx = ZeroCtx
    /\ sp_ret = 0
    /\ files = NoFiles
    /\ PreIdle
    /\ UnitIdle

TextNext == FpTextLine \/ FpTextEof \/ SpStart \/ SpLine \/ SpEof

SpecText == TextInit /\ [][TextNext]_vars

(***************************************************************************)
(* preprocessor (first_pass.c, lines 213-416).  A text line is the         *)
(* sequence of its whitespace-delimited tokens, which is what strtok with  *)
(* " \t\n\r" yields; a blank line is the empty sequence.                   *)
(***************************************************************************)
mcro == "mcro"
mcrend == "mcrend"

\* A variant of is_reserved_keyword whose list stops before the mnemonics.
is_reserved_keyword_no_mnemonics(name) ==
    name \in {"data", "string", "mat", "entry", "extern",
              "r0", "r1", "r2", "r3", "r4", "r5", "r6", "r7",
              "mcro", "endmcro"}

is_reserved_keyword(name) ==
    name \in {"mov", "cmp", "add", "sub", "not", "clr", "lea", "inc", "dec",
              "jmp", "bne", "red", "prn", "jsr", "rts", "stop",
              "data", "string", "mat", "entry", "extern",
              "r0", "r1", "r2", "r3", "r4", "r5", "r6", "r7",
              "mcro", "endmcro"}

\* The lines the preprocessed files are made of.
PreLines == {
    <<"mcro", "my_inc">>,
    <<"inc", "r1">>,
    <<"endmcro">>,
    <<"my_inc">>,
    <<"mcrend">>,
    <<"mcro", "mov">>,
    <<"mcro">>,
    <<"mcro", "my_inc", "some_junk">>,
    <<"mcrend", "some_junk">>,
    <<"my_inc", "r1">>,
    <<"mcro", "m2">>,
    <<"m2">>,
    <<>> }

\* add_line_to_macro(current_macro, line): nothing when current_macro is NULL
add_line_to_macro(tbl, m, line) ==
    IF m = "" THEN tbl
    ELSE hash_put(tbl, m, Append(hash_get(tbl, m), line))

\* One iteration of the fgets loop (lines 347-404) on the state
\* pp = [in_macro_definition, current_macro, macro_table, am_file, success].
preprocess_line(pp, line) ==
    IF Len(line) = 0
    THEN IF ~pp.in_macro_definition THEN [pp EXCEPT !.am_file = Append(@, line)] ELSE pp
    ELSE IF line[1] = mcro
    THEN LET p1 == [pp EXCEPT !.in_macro_definition = TRUE]
         IN IF Len(line) < 2 THEN [p1 EXCEPT !.success = FALSE]
            ELSE IF is_reserved_keyword(line[2]) THEN [p1 EXCEPT !.success = FALSE]
            ELSE IF Len(line) > 2 THEN [p1 EXCEPT !.success = FALSE]
            ELSE [p1 EXCEPT !.current_macro = line[2],
                            !.macro_table = hash_put(@, line[2], <<>>)]
    ELSE IF line[1] = mcrend
    THEN [pp EXCEPT !.success = IF Len(line) > 1 THEN FALSE ELSE @,
                    !.in_macro_definition = FALSE,
                    !.current_macro = ""]
    ELSE IF pp.in_macro_definition
    THEN [pp EXCEPT !.macro_table = add_line_to_macro(@, pp.current_macro, line)]
    ELSE IF hash_has(pp.macro_table, line[1])
    THEN [pp EXCEPT !.am_file = @ \o hash_get(pp.macro_table, line[1])]
    ELSE [pp EXCEPT !.am_file = Append(@, line)]

PpState == [in_macro_definition |-> in_macro_definition, current_macro |-> current_macro,
            macro_table |-> macro_table, am_file |-> am_file, success |-> success]

\* fgets returns a line
PpLine ==
    /\ pp_pc = "scan"
    /\ line_num < MaxPreLines
    /\ \E line \in PreLines :
         LET r == preprocess_line(PpState, line)
         IN /\ as_file' = Append(as_file, line)
            /\ in_macro_definition' = r.in_macro_definition
            /\ current_macro' = r.current_macro
            /\ macro_table' = r.macro_table
            /\ am_file' = r.am_file
            /\ success' = r.success
    /\ line_num' = line_num + 1
    /\ UNCHANGED <<as_text, as_pos, pp_pc, am_exists, pp_ret, asmVars, files, textVars, unitVars>>

\* fgets returns NULL (lines 406-415)
PpEof ==
    /\ pp_pc = "scan"
    /\ pp_pc' = "done"
    /\ macro_table' = NoTable
    /\ current_macro' = ""
    /\ IF ~success
       THEN am_exists' = FALSE /\ pp_ret' = -1
       ELSE am_exists' = TRUE /\ pp_ret' = 0
    /\ UNCHANGED <<as_text, as_pos, as_file, line_num, in_macro_definition, am_file, success,
                   asmVars, files, textVars, unitVars>>

AsmIdle ==
    /\ am_lines = <<>>
    /\ fp_pc = "idle"
    /\ line_no = 0
    /\ ic = 0
    /\ dc = 0
    /\ errors = 0
    /\ symtab = NoTable
    /\ fp_ret = 0
    /\ sp_pc = "idle"
    /\ sp_line_no = 0
    /\ ctx = ZeroCtx
    /\ sp_ret = 0
    /\ files = NoFiles
    /\ TextIdle

\* preprocess_file after both files were opened (lines 325-344)
PreInit ==
    /\ as_text = ""
    /\ as_pos = 0
    /\ as_file = <<>>
    /\ pp_pc = "scan"
    /\ line_num = 0
    /\ in_macro_definition = FALSE
    /\ current_macro = ""
    /\ macro_table = hash_create
    /\ am_file = <<>>
    /\ am_exists = TRUE
    /\ success = TRUE
    /\ pp_ret = 0
    /\ AsmIdle
    /\ UnitIdle

PreNext == PpLine \/ PpEof

SpecPre == PreInit /\ [][PreNext]_vars

(***************************************************************************)
(* preprocess_file on the text of the .as file: fgets hands the loop the   *)
(* file in pieces of at most MAX_LINE_LENGTH - 1 characters, strtok cuts   *)
(* the tokens out of a copy and fputs writes the piece as it was read.     *)
(***************************************************************************)
\* strtok(line_copy, " \t\n\r") and the calls strtok(NULL, " \t\n\r") after
\* it: the tokens of s from position i on
RECURSIVE strtok_skip(_, _)
strtok_skip(s, i) ==
    IF i > Len(s) THEN 0
    ELSE IF Ch(s, i) \in WhiteSpace THEN strtok_skip(s, i + 1)
    ELSE i

RECURSIVE strtok(_, _)
RECURSIVE strtok_start(_, _)
RECURSIVE strtok_stop(_, _, _)
strtok_stop(s, start, stop) ==
    IF stop = 0 THEN <<From(s, start)>>
    ELSE <<SubSeq(s, start, stop - 1)>> \o strtok(s, stop + 1)

strtok_start(s, start) ==
    IF start = 0 THEN <<>> ELSE strtok_stop(s, start, strpbrk(s, start, WhiteSpace))

strtok(s, i) == strtok_start(s, strtok_skip(s, i))

\* fputs of every line of a macro body, in order
RECURSIVE fputs_body(_, _, _)
fputs_body(out, body, i) ==
    IF i > Len(body) THEN out ELSE fputs_body(Append(out, body[i]), body, i + 1)

\* One iteration of the fgets loop (lines 347-404) on the piece line, whose
\* tokens are toks; am_file is the sequence of the strings fputs wrote.
preprocess_text(pp, line, toks) ==
    IF Len(toks) = 0
    THEN IF ~pp.in_macro_definition THEN [pp EXCEPT !.am_file = Append(@, line)] ELSE pp
    ELSE IF toks[1] = mcro
    THEN IF Len(toks) < 2 \/ is_reserved_keyword(toks[2]) \/ Len(toks) > 2
         THEN [pp EXCEPT !.in_macro_definition = TRUE, !.success = FALSE]
         ELSE [pp EXCEPT !.in_macro_definition = TRUE,
                         !.current_macro = toks[2],
                         !.macro_table = hash_put(@, toks[2], <<>>)]
    ELSE IF toks[1] = mcrend
    THEN [pp EXCEPT !.success = IF Len(toks) > 1 THEN FALSE ELSE @,
                    !.in_macro_definition = FALSE,
                    !.current_macro = ""]
    ELSE IF pp.in_macro_definition
    THEN [pp EXCEPT !.macro_table = add_line_to_macro(@, pp.current_macro, line)]
    ELSE IF hash_has(pp.macro_table, toks[1])
    THEN [pp EXCEPT !.am_file = fputs_body(@, hash_get(pp.macro_table, toks[1]), 1)]
    ELSE [pp EXCEPT !.am_file = Append(@, line)]

\* the lines the .as texts are made of: statements, blank and comment lines,
\* a macro definition and its call, and lines of more than 80 characters
\* whose tail starts with mcro or mcrend
PreTextLines ==
    {"mov r1, r2\n", "add #5, r3\n", "\n", " \t\n", "; a comment\n", "LOOP: inc r1\n",
     "mcro m2\n", "mcrend\n", "m2\n", "stop"}
    \cup {"stop" \o Rep(" ", n) \o "mcro m2\n" : n \in (MaxPad - 2)..MaxPad}
    \cup {"stop" \o Rep(" ", n) \o "mcrend\n" : n \in (MaxPad - 1)..MaxPad}
    \cup {"stop ;" \o Rep("c", MaxPad) \o "\n"}

RECURSIVE Concat(_, _)
Concat(lines, i) == IF i > Len(lines) THEN "" ELSE lines[i] \o Concat(lines, i + 1)

MaxTextLines == 3    \* lines of the longest .as text

\* the .as texts: up to MaxTextLines of the lines, one after the other
PreTextFiles ==
    {Concat(f, 1) : f \in UNION {[1..n -> PreTextLines] : n \in 1..MaxTextLines}}

\* fgets returns a piece of the text
PpTextLine ==
    /\ pp_pc = "scan"
    /\ as_pos < Len(as_text)
    /\ LET line == fgets(as_text, as_pos, MAX_LINE_LENGTH)
           r == preprocess_text(PpState, line, strtok(line, 1))
       IN /\ as_pos' = as_pos + Len(line)
          /\ as_file' = Append(as_file, line)
          /\ in_macro_definition' = r.in_macro_definition
          /\ current_macro' = r.current_macro
          /\ macro_table' = r.macro_table
          /\ am_file' = r.am_file
          /\ success' = r.success
    /\ line_num' = line_num + 1
    /\ UNCHANGED <<as_text, pp_pc, am_exists, pp_ret, asmVars, files, textVars, unitVars>>

\* fgets returns NULL at the end of the text
PpTextEof ==
    /\ as_pos = Len(as_text)
    /\ PpEof

PreTextInit ==
    /\ as_text \in PreTextFiles
    /\ as_pos = 0
    /\ as_file = <<>>
    /\ pp_pc = "scan"
    /\ line_num = 0
    /\ in_macro_definition = FALSE
    /\ current_macro = ""
    /\ macro_table = hash_create
    /\ am_file = <<>>
    /\ am_exists = TRUE
    /\ success = TRUE
    /\ pp_ret = 0
    /\ AsmIdle
    /\ UnitIdle

PreTextNext == PpTextLine \/ PpTextEof

SpecPreText == PreTextInit /\ [][PreTextNext]_vars

\* preprocess_file as a function of the text: the value returned and the
\* text of the output file ("" when it was removed)
RECURSIVE preprocess_loop(_, _, _)
preprocess_loop(pp, text, pos) ==
    IF pos >= Len(text) THEN pp
    ELSE LET line == fgets(text, pos, MAX_LINE_LENGTH)
         IN preprocess_loop(preprocess_text(pp, line, strtok(line, 1)), text, pos + Len(line))

preprocess_file(text) ==
    LET pp == preprocess_loop([in_macro_definition |-> FALSE, current_macro |-> "",
                               macro_table |-> hash_create, am_file |-> <<>>,
                               success |-> TRUE], text, 0)
    IN IF pp.success THEN [ret |-> 0, am |-> Concat(pp.am_file, 1)]
       ELSE [ret |-> -1, am |-> ""]

(***************************************************************************)
(* Properties of the preprocessor.                                         *)
(***************************************************************************)
SimpleExpansionInput == << <<"mcro", "my_inc">>, <<"inc", "r1">>, <<"endmcro">>, <<"my_inc">> >>

\* C6: the input mcro my_inc / inc r1 / endmcro / my_inc preprocesses
\* successfully to exactly the one line inc r1 (the definition is removed and
\* the call is replaced by the body).
C6_SimpleExpansion ==
    (pp_pc = "done" /\ as_file = SimpleExpansionInput)
        => (pp_ret = 0 /\ am_exists /\ am_file = << <<"inc", "r1">> >>)

\* a line on which preprocess_file detects an error: mcro without a name, with
\* the reserved word mov as name, or with a token after the name; mcrend with
\* a token after it
DetectedError(line) ==
    \/ Len(line) >= 1 /\ line[1] = "mcro" /\ Len(line) = 1
    \/ Len(line) >= 2 /\ line[1] = "mcro" /\ line[2] = "mov"
    \/ Len(line) >= 3 /\ line[1] = "mcro"
    \/ Len(line) >= 2 /\ line[1] = "mcrend"

\* C7: when the file has a line with a detected preprocessing error,
\* preprocess_file returns non-zero and the output file does not exist when it
\* returns, whatever had been written to it.
C7_ErrorRemovesOutput ==
    (pp_pc = "done" /\ \E j \in 1..Len(as_file) : DetectedError(as_file[j]))
        => (pp_ret # 0 /\ ~am_exists)

C7_Witness ==
    /\ pp_pc = "done"
    /\ \E j \in 1..Len(as_file) : DetectedError(as_file[j])
    /\ Len(am_file) >= 2
    /\ pp_ret = -1
    /\ ~am_exists

\* a well-formed definition line: mcro NAME with a NAME that is not reserved
DefinitionLine(line) ==
    Len(line) = 2 /\ line[1] = "mcro" /\ line[2] \in {"my_inc", "m2"}

\* C8: a mcro NAME line whose NAME was already defined by an earlier, closed
\* definition of the same file makes preprocess_file return failure.
C8_DuplicateMacroFails ==
    (pp_pc = "done" /\ \E i, k, j \in 1..Len(as_file) :
         /\ i < k /\ k < j
         /\ DefinitionLine(as_file[i])
         /\ as_file[k] = <<"mcrend">>
         /\ as_file[j] = as_file[i])
        => pp_ret # 0

\* C9: a line whose first token is mcro, read while the body of a macro NAME
\* is being collected, makes preprocessing fail and starts no second
\* definition.
C9_NestedDefinitionFails ==
    [][(/\ pp_pc = "scan"
        /\ in_macro_definition
        /\ current_macro # ""
        /\ line_num' = line_num + 1
        /\ Len(as_file'[line_num']) >= 1
        /\ as_file'[line_num'][1] = "mcro")
          => (/\ success' = FALSE
              /\ macro_table' = macro_table
              /\ current_macro' = current_macro)]_vars

\* C10: outside a definition, a line whose first token is a macro name but
\* which has further tokens is emitted verbatim.
C10_CallNeedsLoneToken ==
    [][(/\ pp_pc = "scan"
        /\ ~in_macro_definition
        /\ line_num' = line_num + 1
        /\ Len(as_file'[line_num']) > 1
        /\ as_file'[line_num'][1] \notin {"mcro", "mcrend"}
        /\ hash_has(macro_table, as_file'[line_num'][1]))
          => am_file' = Append(am_file, as_file'[line_num'])]_vars

(***************************************************************************)
(* Properties of the two passes.                                           *)
(***************************************************************************)
\* the label names of AsmLines
Names == {"AB", "BA", "X"}

\* the locals of first_pass after the first n iterations of its loop
RECURSIVE FirstPassPrefix(_, _)
FirstPassPrefix(lines, n) ==
    IF n = 0 THEN FpStart
    ELSE first_pass_line(FirstPassPrefix(lines, n - 1), lines[n])

\* the line defines the label n as a Code or Data symbol
Defines(pl, n) ==
    /\ pl.st = "ERROR_OK"
    /\ pl.label = n
    /\ \/ pl.kind = "LINE_OPERATION"
       \/ pl.kind = "LINE_DIRECTIVE" /\ IsDataDirective(pl)

IsEntryOf(pl, n) ==
    /\ pl.st = "ERROR_OK"
    /\ pl.kind = "LINE_DIRECTIVE"
    /\ pl.type = "ENTRY_DIRECTIVE"
    /\ pl.symbol_name = n

IsExternOf(pl, n) ==
    /\ pl.st = "ERROR_OK"
    /\ pl.kind = "LINE_DIRECTIVE"
    /\ pl.type = "EXTERN_DIRECTIVE"
    /\ pl.symbol_name = n

C2_RebaseOnce ==
    (fp_pc = "done") =>
        LET pre == FirstPassPrefix(am_lines, Len(am_lines))
            syms == symtab_iter(symtab)
        IN /\ Len(syms) = symtab.size
           /\ \A i, j \in 1..Len(syms) : i # j => syms[i].name # syms[j].name
           /\ \A n \in Names :
                /\ symtab_has(symtab, n) <=> symtab_has(pre.symtab, n)
                /\ symtab_has(symtab, n) => \E i \in 1..Len(syms) : syms[i].name = n
                /\ symtab_has(pre.symtab, n) =>
                     LET b == symtab_lookup(pre.symtab, n)
                         a == symtab_lookup(symtab, n)
                     IN /\ a.name = b.name
                        /\ a.flags = b.flags
                        /\ a.address = IF SYM_DATA \in b.flags THEN b.address + ic
                                       ELSE b.address
           /\ \A j \in 1..Len(am_lines) :
                LET pl == am_lines[j]
                    before == FirstPassPrefix(am_lines, j - 1)
                IN (/\ Defines(pl, pl.label) /\ pl.label # ""
                    /\ pl.kind = "LINE_DIRECTIVE"
                    /\ symtab_insert(before.symtab, pl.label,
                                     ADDRESS_BASE + before.dc, {SYM_DATA}).ret = 1)
                     => symtab_lookup(symtab, pl.label).address
                          = ADDRESS_BASE + before.dc + ic

C2_Witness ==
    /\ fp_pc = "done"
    /\ ic > 0
    /\ \E i \in DOMAIN symtab.tbl :
         /\ Len(symtab.tbl[i]) >= 2
         /\ \A a \in 1..Len(symtab.tbl[i]) : SYM_DATA \in symtab.tbl[i][a].value.flags
         /\ symtab.tbl[i][1].value.address # symtab.tbl[i][2].value.address
    /\ \E n \in Names :
         /\ symtab_has(symtab, n)
         /\ SYM_CODE \in symtab_lookup(symtab, n).flags

Contradictory(flags) ==
    \/ SYM_CODE \in flags /\ SYM_DATA \in flags
    \/ SYM_EXTERN \in flags /\ (SYM_CODE \in flags \/ SYM_DATA \in flags)
    \/ SYM_ENTRY \in flags /\ SYM_EXTERN \in flags

\* C3: at every point of the first pass and after it, every name is stored at
\* most once (once in the chain of its own bucket, nowhere else), no symbol
\* carries Code with Data, Extern with Code or Data, or Entry with Extern, and
\* an insert of Code, Data, Entry or Extern that would create such a
\* combination, or assert Entry again, returns failure and changes nothing.
C3_SymbolTableConsistent ==
    (fp_pc \in {"scan", "done"}) =>
        /\ \A i \in DOMAIN symtab.tbl :
             \A a \in 1..Len(symtab.tbl[i]) :
                LET e == symtab.tbl[i][a]
                IN /\ BucketOf(symtab, e.key) = i
                   /\ e.value.name = e.key
                   /\ ~Contradictory(e.value.flags)
                   /\ \A b \in 1..Len(symtab.tbl[i]) : a # b => symtab.tbl[i][b].key # e.key
        /\ \A n \in Names : \A f \in {SYM_CODE, SYM_DATA, SYM_ENTRY, SYM_EXTERN} :
             (/\ symtab_has(symtab, n)
              /\ \/ Contradictory(symtab_lookup(symtab, n).flags \cup {f})
                 \/ f = SYM_ENTRY /\ SYM_ENTRY \in symtab_lookup(symtab, n).flags)
               => symtab_insert(symtab, n, ADDRESS_BASE, {f}) = [ret |-> 0, st |-> symtab]

C3_Witness ==
    /\ fp_pc = "scan"
    /\ line_no = Len(am_lines)
    /\ \A j \in 1..Len(am_lines) : am_lines[j].st = "ERROR_OK"
    /\ errors >= 1
    /\ \E n \in Names :
         /\ symtab_has(symtab, n)
         /\ symtab_lookup(symtab, n).flags = {SYM_ENTRY, SYM_DATA}

RemoveAt(seq, i) == SubSeq(seq, 1, i - 1) \o SubSeq(seq, i + 1, Len(seq))

InsertAt(seq, k, x) == SubSeq(seq, 1, k - 1) \o <<x>> \o SubSeq(seq, k, Len(seq))

\* the file with line e moved to position k
MoveLine(lines, e, k) == InsertAt(RemoveAt(lines, e), k, lines[e])

IsLabelMode(op) == op.mode \in {DIRECT, MATRIX_ACCESS}

\* The Direct and MatrixAccess operands encode_instruction encodes for the
\* line pl when the code image holds pos words: [at |-> the position of the
\* base word in the code image, counted from 1, label |-> the label].
LabelRefs(pl, st, pos) ==
    LET src == pl.source_op
        dst == pl.dest_op
    IN (IF pl.n_operands >= 1 /\ IsLabelMode(src) /\ symtab_has(st, src.label)
        THEN {[at |-> pos + 2, label |-> src.label]} ELSE {})
       \cup
       (IF /\ pl.n_operands >= 2
           /\ IsLabelMode(src) => symtab_has(st, src.label)
           /\ IsLabelMode(dst) /\ symtab_has(st, dst.label)
        THEN {[at |-> pos + 2 + (IF src.mode = MATRIX_ACCESS THEN 2 ELSE 1),
               label |-> dst.label]}
        ELSE {})

\* C5: every step of the second pass keeps the usages recorded so far and
\* adds one usage per encoded Direct or MatrixAccess operand whose symbol is
\* Extern, with address BASE + the code-image index of the base word, that
\* word being ARE = E with a zero address field; the base word of an operand
\* whose symbol is not Extern is (address << 2) | R and no usage has its
\* address; and every recorded usage names a symbol with Extern and the
\* address of a word that is E with a zero field.
C5_ExternalUsage ==
    [][(sp_pc = "scan" /\ sp_line_no' = sp_line_no + 1) =>
        LET pl == am_lines[sp_line_no']
            refs == IF pl.st = "ERROR_OK" /\ pl.kind = "LINE_OPERATION"
                    THEN LabelRefs(pl, symtab, ctx.code_pos) ELSE {}
            new == SubSeq(ctx'.ext_list, Len(ctx.ext_list) + 1, Len(ctx'.ext_list))
        IN /\ SubSeq(ctx'.ext_list, 1, Len(ctx.ext_list)) = ctx.ext_list
           /\ \A r \in refs :
                LET sym == symtab_lookup(symtab, r.label)
                IN IF SYM_EXTERN \in sym.flags
                   THEN /\ ctx'.code_image[r.at] % 4 = ARE_E
                        /\ ctx'.code_image[r.at] \div 4 = 0
                        /\ \E i \in 1..Len(new) :
                             new[i] = [name |-> r.label, address |-> ADDRESS_BASE + r.at - 1]
                   ELSE /\ ctx'.code_image[r.at] = (sym.address * 4 + ARE_R) % Pow2(WORD_BITS)
                        /\ \A i \in 1..Len(ctx'.ext_list) :
                             ctx'.ext_list[i].address # ADDRESS_BASE + r.at - 1
           /\ Len(new) = Cardinality({r \in refs :
                                        SYM_EXTERN \in symtab_lookup(symtab, r.label).flags})
           /\ \A i \in 1..Len(ctx'.ext_list) :
                LET u == ctx'.ext_list[i]
                IN /\ symtab_has(symtab, u.name)
                   /\ SYM_EXTERN \in symtab_lookup(symtab, u.name).flags
                   /\ u.address - ADDRESS_BASE + 1 \in 1..Len(ctx'.code_image)
                   /\ ctx'.code_image[u.address - ADDRESS_BASE + 1] = ARE_E]_vars

C5_Witness ==
    /\ sp_pc = "done"
    /\ sp_ret = 0
    /\ Len(ctx.ext_list) >= 1
    /\ ctx.ext_list[1].address > ADDRESS_BASE + 1
    /\ \E i \in 1..Len(ctx.code_image) : ctx.code_image[i] % 4 = ARE_R

\* the symbols first_pass reports in its final validation: Entry without a
\* definition
UndefinedEntries(st) ==
    {n \in Names : /\ symtab_has(st, n)
                   /\ SYM_ENTRY \in symtab_lookup(st, n).flags
                   /\ symtab_lookup(st, n).flags \cap {SYM_CODE, SYM_DATA} = {}}

\* the insertions the line pl asks of the table st that symtab_insert rejects
RejectedInsertions(st, pl, ic0, dc0) ==
    (IF Defines(pl, pl.label) /\ pl.label # ""
        /\ symtab_insert(st, pl.label,
                         ADDRESS_BASE + (IF pl.kind = "LINE_OPERATION" THEN ic0 ELSE dc0),
                         {IF pl.kind = "LINE_OPERATION" THEN SYM_CODE ELSE SYM_DATA}).ret = 0
     THEN 1 ELSE 0)
    + (IF IsExternOf(pl, pl.symbol_name)
          /\ symtab_insert(st, pl.symbol_name, 0, {SYM_EXTERN}).ret = 0
       THEN 1 ELSE 0)
    + (IF IsEntryOf(pl, pl.symbol_name)
          /\ symtab_insert(st, pl.symbol_name, 0, {SYM_ENTRY}).ret = 0
       THEN 1 ELSE 0)

HasParsed == line_no >= 1 /\ Len(am_lines) = line_no

Parsed == am_lines[Len(am_lines)]

\* the addressing mode of a well-formed operand text
ModeOf(text) == parse_operand(text, ZeroOperand).op.mode

\* the table of legal addressing modes: source and destination of the
\* two-operand instructions, the operand of the one-operand instructions
TwoOperandTable(m, src, dst) ==
    CASE m \in {"mov", "add", "sub"} -> dst # IMMEDIATE
      [] m = "cmp" -> TRUE
      [] m = "lea" -> src \in {DIRECT, MATRIX_ACCESS} /\ dst # IMMEDIATE
      [] OTHER -> FALSE

OneOperandTable(m, mode) ==
    CASE m \in {"clr", "not", "inc", "dec", "jmp", "bne", "jsr", "red"} -> mode # IMMEDIATE
      [] m = "prn" -> TRUE
      [] OTHER -> FALSE

\* C12: an instruction whose operands are well-formed is accepted exactly when
\* their addressing modes satisfy the table (cmp takes an Immediate
\* destination, prn an operand of any mode), and returns
\* ERROR_INVALID_ADDRESSING_MODE otherwise.
C12_AddressingTable ==
    HasParsed =>
        /\ \A m \in TwoOperandMnemonics : \A s \in OperandTexts : \A d \in OperandTexts :
             line_buf = m \o " " \o s \o ", " \o d \o "\n" =>
                Parsed.st = IF TwoOperandTable(m, ModeOf(s), ModeOf(d))
                            THEN "ERROR_OK" ELSE "ERROR_INVALID_ADDRESSING_MODE"
        /\ \A m \in OneOperandMnemonics : \A s \in OperandTexts :
             line_buf = m \o " " \o s \o "\n" =>
                Parsed.st = IF OneOperandTable(m, ModeOf(s))
                            THEN "ERROR_OK" ELSE "ERROR_INVALID_ADDRESSING_MODE"

\* C13: `mov r1, r2, r3` returns TooManyOperands; `mov r1` and `stop extra`
\* return InvalidOperandCountForCommand.
C13_OperandCountCodes ==
    HasParsed =>
        /\ line_buf = "mov r1, r2, r3\n" => Parsed.st = "ERROR_TOO_MANY_OPERANDS"
        /\ line_buf \in {"mov r1\n", "stop extra\n"} =>
             Parsed.st = "ERROR_INVALID_OPERAND_COUNT_FOR_COMMAND"

\* the first token of a line without comment, and the text after it
FirstToken(line) ==
    next_token(trim_trailing_whitespace_inplace(remove_comment_from_semicolon(line)),
               WhiteSpace)

\* the operand text of a line that has no label
OperandText(line) == skip_leading_whitespace(FirstToken(line).cursor)

IsMnemonic(tok) == \E i \in 1..Len(OPCODES) : OPCODES[i].mnemonic = tok

\* two commas with nothing but white space between them
DuplicateComma(text) ==
    \E i, j \in 1..Len(text) :
        /\ i < j
        /\ Ch(text, i) = "," /\ Ch(text, j) = ","
        /\ \A k \in (i + 1)..(j - 1) : isspace(Ch(text, k))

StrayComma(text) ==
    \/ Ch(text, 1) = ","
    \/ Ch(text, Len(text)) = ","
    \/ DuplicateComma(text)

\* C14: an instruction line whose operand text starts with a comma, ends with
\* a comma or has two commas with no operand between them is an error.
C14_StrayCommaIsError ==
    (/\ HasParsed
     /\ IsMnemonic(FirstToken(line_buf).token)
     /\ StrayComma(OperandText(line_buf)))
        => Parsed.st # "ERROR_OK"

\* the fields of a comma-separated list, untrimmed
RECURSIVE Fields(_)
Fields(s) ==
    LET comma == strpbrk(s, 1, {","})
    IN IF comma = 0 THEN <<s>>
       ELSE <<SubSeq(s, 1, comma - 1)>> \o Fields(From(s, comma + 1))

Trimmed(s) == trim_trailing_whitespace_inplace(skip_leading_whitespace(s))

\* a signed decimal: an optional sign and one or more digits
IsDecimal(f) ==
    LET t == Trimmed(f)
        digits == IF Ch(t, 1) \in {"+", "-"} THEN From(t, 2) ELSE t
    IN /\ Len(digits) >= 1
       /\ \A i \in 1..Len(digits) : isdigit(Ch(digits, i))

DecimalValue(f) ==
    LET t == Trimmed(f)
        digits == IF Ch(t, 1) \in {"+", "-"} THEN From(t, 2) ELSE t
    IN (IF Ch(t, 1) = "-" THEN -1 ELSE 1) * DigitsValue(digits, 1, Len(digits))

\* C15: a .data directive is accepted exactly when its payload is a non-empty
\* comma-separated list of at most 32 signed decimals with no empty field and
\* no trailing comma, and then holds the values in order; a well-formed list
\* of more than 32 items returns ERROR_DATA_OVERFLOW and a list whose only
\* fault is a non-numeric field returns ERROR_INVALID_NUMBER_FORMAT.
C15_DataList ==
    (HasParsed /\ FirstToken(line_buf).token = ".data") =>
        LET payload == OperandText(line_buf)
            fields == Fields(payload)
            wellformed == payload # "" /\ \A i \in 1..Len(fields) : IsDecimal(fields[i])
        IN /\ Parsed.st = "ERROR_OK" <=> (wellformed /\ Len(fields) <= MAX_DATA_ITEMS)
           /\ Parsed.st = "ERROR_OK" =>
                Parsed.data = [i \in 1..Len(fields) |-> DecimalValue(fields[i])]
           /\ (wellformed /\ Len(fields) > MAX_DATA_ITEMS) =>
                Parsed.st = "ERROR_DATA_OVERFLOW"
           /\ (/\ payload # ""
               /\ Len(fields) <= MAX_DATA_ITEMS
               /\ \A i \in 1..Len(fields) : Trimmed(fields[i]) # ""
               /\ \E i \in 1..Len(fields) : ~IsDecimal(fields[i]))
                => Parsed.st = "ERROR_INVALID_NUMBER_FORMAT"

\* a payload of the form [rows][cols] initializers: its three parts
MatParts(payload) ==
    LET c1 == strpbrk(payload, 1, {"]"})
        c2 == strpbrk(payload, c1 + 1, {"]"})
    IN [shaped |-> /\ Ch(payload, 1) = "[" /\ c1 # 0 /\ c2 # 0
                   /\ SubSeq(payload, c1 + 1, c1 + 1) = "[",
        rows |-> SubSeq(payload, 2, c1 - 1),
        cols |-> SubSeq(payload, c1 + 2, c2 - 1),
        init |-> Trimmed(From(payload, c2 + 1))]

\* C16: a .mat [rows][cols] directive with decimal dimensions is accepted
\* exactly when 1 <= rows <= 15, 1 <= cols <= 15 and the initializer list is
\* absent (the rows*cols cells are then 0) or holds exactly rows*cols signed
\* decimals, stored in order, with no missing value, no extra value and no
\* trailing comma.
C16_MatrixDirective ==
    (/\ HasParsed
     /\ FirstToken(line_buf).token = ".mat"
     /\ Ch(OperandText(line_buf), 1) = "["
     /\ MatParts(OperandText(line_buf)).shaped
     /\ IsDecimal(MatParts(OperandText(line_buf)).rows)
     /\ IsDecimal(MatParts(OperandText(line_buf)).cols)) =>
        LET p == MatParts(OperandText(line_buf))
            rows == DecimalValue(p.rows)
            cols == DecimalValue(p.cols)
            fields == Fields(p.init)
            inrange == rows >= 1 /\ rows <= MAX_MATRIX_ROWS /\ cols >= 1 /\ cols <= MAX_MATRIX_COLS
            exact == /\ Len(fields) = rows * cols
                     /\ \A i \in 1..Len(fields) : IsDecimal(fields[i])
        IN /\ Parsed.st = "ERROR_OK" <=> (inrange /\ (p.init = "" \/ exact))
           /\ (Parsed.st = "ERROR_OK" /\ p.init = "") =>
                /\ Parsed.rows = rows /\ Parsed.cols = cols
                /\ Parsed.cells = [i \in 1..(rows * cols) |-> 0]
           /\ (Parsed.st = "ERROR_OK" /\ p.init # "") =>
                /\ Parsed.rows = rows /\ Parsed.cols = cols
                /\ Parsed.cells = [i \in 1..Len(fields) |-> DecimalValue(fields[i])]

\* the label of a line of the form `label: stop`
LabelOf(line) == SubSeq(line, 1, Len(line) - 7)

IsLabelledStop(line) == Len(line) >= 7 /\ SubSeq(line, Len(line) - 6, Len(line)) = ": stop\n"

\* C17: a label definition of 1 to 30 characters that starts with a letter,
\* has only letters and digits and is not a reserved name is accepted; one of
\* 31 or more characters and the empty one are rejected with
\* ERROR_INVALID_LABEL; one of 1 to 30 characters with an illegal character is
\* rejected with ERROR_ILLEGAL_LABEL.
C17_LabelRules ==
    (HasParsed /\ IsLabelledStop(line_buf)) =>
        LET label == LabelOf(line_buf)
            len == Len(label)
            wellformed == /\ isalpha(Ch(label, 1))
                          /\ \A i \in 2..len : isalnum(Ch(label, i))
        IN /\ (len >= 1 /\ len <= 30 /\ wellformed /\ label \notin reserved_keywords) =>
                Parsed.st = "ERROR_OK" /\ Parsed.label = label
           /\ (len = 0 \/ len >= 31) => Parsed.st = "ERROR_INVALID_LABEL"
           /\ (len >= 1 /\ len <= 30 /\ ~wellformed) => Parsed.st = "ERROR_ILLEGAL_LABEL"

\* C18: whenever parse_line returned an error code, the parsed_line is zeroed:
\* kind, label and every body field are zero.
C18_ZeroedOnError ==
    (HasParsed /\ Parsed.st # "ERROR_OK") => [Parsed EXCEPT !.st = "ERROR_OK"] = ZeroLine

\* the length of the longest line of a text, without the newline
RECURSIVE LongestLine(_)
LongestLine(text) ==
    LET nl == strpbrk(text, 1, {"\n"})
        rest == LongestLine(From(text, nl + 1))
    IN IF nl = 0 THEN Len(text)
       ELSE IF nl - 1 > rest THEN nl - 1 ELSE rest

\* C19: a source with a line of more than 80 characters is not assembled:
\* first_pass reports ERROR_LINE_TOO_LONG for it and returns a non-zero error
\* count, and no object file is written.
C19_LongLineRejected ==
    LongestLine(am_text) > MAX_LINE_LENGTH - 2 =>
        /\ fp_pc = "done" =>
             /\ fp_ret # 0
             /\ \E j \in 1..Len(am_lines) : am_lines[j].st = "ERROR_LINE_TOO_LONG"
        /\ ~files.ob_exists

(***************************************************************************)
(* Properties of preprocess_file on the text of its input.                 *)
(***************************************************************************)
\* the first token of the line is mcro or mcrend
IsMacroLine(line) ==
    LET toks == strtok(line, 1)
    IN Len(toks) >= 1 /\ toks[1] \in {mcro, mcrend}

\* some line of the text has mcro or mcrend as its first token
RECURSIVE HasMacroLine(_)
HasMacroLine(text) ==
    LET nl == strpbrk(text, 1, {"\n"})
    IN IF nl = 0 THEN IsMacroLine(text)
       ELSE IsMacroLine(SubSeq(text, 1, nl)) \/ HasMacroLine(From(text, nl + 1))

\* C11: for every input with no line whose first token is mcro or mcrend the
\* preprocessor returns 0 and the output file holds the input, every line
\* verbatim and in order; the preprocessor applied to that output returns it
\* unchanged.
C11_NoMacrosIdentity ==
    (pp_pc = "done" /\ ~HasMacroLine(as_text)) =>
        /\ pp_ret = 0
        /\ am_exists
        /\ Concat(am_file, 1) = as_text
        /\ preprocess_file(Concat(am_file, 1)) = [ret |-> 0, am |-> Concat(am_file, 1)]

(***************************************************************************)
(* Properties of whole programs, read as text.                             *)
(***************************************************************************)
\* C21, as claimed: for the source MAIN: mov r1, r2 / stop / VAL: .data 5 /
\* .entry MAIN the first pass ends with IC_final = 2 and DC_final = 1, MAIN at
\* 100 with Code|Entry and VAL at 102 with Data; the object-file header
\* encodes code length 2 and data length 1, the entry file has the one line
\* MAIN with the base-4 form of 100, and no externals file is created.
C21_ExampleProgram ==
    am_text = ExampleProgram =>
        /\ fp_pc = "done" =>
             /\ ic = 2 /\ dc = 1
             /\ symtab_lookup(symtab, "MAIN")
                  = [name |-> "MAIN", address |-> 100, flags |-> {SYM_CODE, SYM_ENTRY}]
             /\ symtab_lookup(symtab, "VAL")
                  = [name |-> "VAL", address |-> 102, flags |-> {SYM_DATA}]
        /\ (sp_pc = "done" /\ sp_ret = 0) =>
             /\ files.ob_exists
             /\ files.ob.header = << <<"a", "a", "c">>, <<"a", "b">> >>
             /\ files.ent_exists
             /\ files.ent = << [name |-> "MAIN", address |-> <<"b", "c", "b", "a">>] >>
             /\ ~files.ext_exists

\* C21, amended: mov r1, r2 takes two words and stop one, so the first pass
\* ends with IC_final = 3 and DC_final = 1 and no error, MAIN at 100 with
\* Code|Entry and VAL at 103 with Data and no other symbol; the second pass
\* stores three code words and one data word, and when it returns 0 the
\* object-file header encodes code length 3 and data length 1, the entry file
\* has the one line MAIN with the base-4 form of 100, and no externals file
\* is created.
C21_ExampleProgramAmended ==
    am_text = ExampleProgram =>
        /\ fp_pc = "done" =>
             /\ fp_ret = 0
             /\ ic = 3 /\ dc = 1
             /\ symtab.size = 2
             /\ symtab_lookup(symtab, "MAIN")
                  = [name |-> "MAIN", address |-> 100, flags |-> {SYM_CODE, SYM_ENTRY}]
             /\ symtab_lookup(symtab, "VAL")
                  = [name |-> "VAL", address |-> 103, flags |-> {SYM_DATA}]
        /\ sp_pc = "done" => ctx.code_pos = 3 /\ ctx.data_pos = 1
        /\ (sp_pc = "done" /\ sp_ret = 0) =>
             /\ files.ob_exists
             /\ files.ob.header = << <<"a", "a", "d">>, <<"a", "b">> >>
             /\ Len(files.ob.body) = 4
             /\ files.ent_exists
             /\ files.ent = << [name |-> "MAIN", address |-> <<"b", "c", "b", "a">>] >>
             /\ ~files.ext_exists

C21_Witness ==
    /\ am_text = ExampleProgram
    /\ sp_pc = "done"
    /\ sp_ret = 0
    /\ files.ob_exists
    /\ files.ent_exists

\* C22: every word the second pass has stored in the code image or the data
\* image has its upper 6 bits zero, that is, a value in 0..1023.
C22_WordsFitTenBits ==
    sp_pc \in {"scan", "done"} =>
        /\ \A i \in 1..Len(ctx.code_image) : ctx.code_image[i] \in 0..1023
        /\ \A i \in 1..Len(ctx.data_image) : ctx.data_image[i] \in 0..1023

\* the fields of a first word: [opcode 9..6][src 5..4][dst 3..2][ARE 1..0]
SrcModeField(w) == (w \div 16) % 4

DstModeField(w) == (w \div 4) % 4

\* C28: a one-operand instruction whose operand is the register n is encoded
\* as a destination: the first word has source-mode field 0 and
\* destination-mode field 3 and the one extra word is (n << 2) | A, its bits
\* 6..9 zero.
C28_SingleRegisterAsDestination ==
    \A m \in OneOperandMnemonics :
        (am_text = m \o " r1\n" /\ sp_pc = "done") =>
            /\ Len(ctx.code_image) = 2
            /\ SrcModeField(ctx.code_image[1]) = 0
            /\ DstModeField(ctx.code_image[1]) = REGISTER_DIRECT
            /\ ctx.code_image[2] = BitOr(Shl(1, 2), ARE_A)
            /\ (ctx.code_image[2] \div 64) % 16 = 0

\* the number a sequence of base-4 letters stands for, most significant first
RECURSIVE base4_decode(_)
base4_decode(letters) ==
    IF Len(letters) = 0 THEN 0
    ELSE 4 * base4_decode(SubSeq(letters, 1, Len(letters) - 1))
         + (CHOOSE d \in 0..3 : <<"a", "b", "c", "d">>[d + 1] = letters[Len(letters)])

\* C30: once the output files are written every base-4 field stands for its
\* value: the 3 digits of the code length for code_pos, the 2 digits of the
\* data length for data_pos, the 4 digits of the address on the k-th body
\* line (k from 0) for BASE + k, and the addresses of the entry and
\* externals files for the symbol's and the usage's address.
C30_FieldsDecode ==
    (sp_pc = "done" /\ sp_ret = 0) =>
        /\ base4_decode(files.ob.header[1]) = ctx.code_pos
        /\ base4_decode(files.ob.header[2]) = ctx.data_pos
        /\ \A k \in 1..Len(files.ob.body) :
             base4_decode(files.ob.body[k].address) = ADDRESS_BASE + k - 1
        /\ \A k \in 1..Len(files.ent) :
             base4_decode(files.ent[k].address) = symtab_lookup(symtab, files.ent[k].name).address
        /\ \A k \in 1..Len(files.ext) :
             base4_decode(files.ext[k].address) = ctx.ext_list[k].address

\* C24: when second_pass has returned failure, on an undefined symbol or on
\* a writer that failed, none of the three output files of that call is on
\* disk; output files exist only after second_pass returned 0.
C24_NoOutputOnFailure ==
    (sp_pc = "done" /\ sp_ret # 0) =>
        /\ ~files.ob_exists
        /\ ~files.ent_exists
        /\ ~files.ext_exists

\* C29: for a file the first pass accepted, code_pos and data_pos stay within
\* 0..256 throughout the second pass and no word is stored at an index of 256
\* or more; a program that needs more than 256 data words, such as two
\* .mat [15][15] lines, is rejected by the first pass.
C29_ImageBounds ==
    /\ (fp_pc = "done" /\ fp_ret = 0 /\ sp_pc # "idle") =>
          /\ sp_pc # "crashed"
          /\ ctx.code_pos \in 0..IMAGE_LENGTH
          /\ ctx.data_pos \in 0..IMAGE_LENGTH
          /\ Len(ctx.code_image) <= IMAGE_LENGTH
          /\ Len(ctx.data_image) <= IMAGE_LENGTH
    /\ (fp_pc = "done" /\ dc > IMAGE_LENGTH) => fp_ret # 0

(***************************************************************************)
(* second_pass.c: word_to_base4, called on its own.                        *)
(***************************************************************************)
MaxB4Word == 1100

\* the sizes of the buffers write_ob_file, write_ent_file and write_ext_file
\* hand to word_to_base4: b4_data_length, b4_code_length, b4_address, b4_line
B4Lengths == {3, 4, 5, 6}

B4Init ==
    /\ b4_w \in 0..MaxB4Word
    /\ b4_length \in B4Lengths
    /\ b4_out = <<>>
    /\ AsmIdle
    /\ PreIdle
    /\ HashIdle
    /\ VecIdle
    /\ DrvIdle

B4Write ==
    /\ b4_out = <<>>
    /\ b4_out' = word_to_base4(b4_w, b4_length)
    /\ UNCHANGED <<b4_w, b4_length, asmVars, preVars, files, textVars, hashVars, vecVars, drvVars>>

B4Next == B4Write

SpecB4 == B4Init /\ [][B4Next]_vars

\* C23: word_to_base4 with a buffer of n + 1 characters writes n letters of
\* a..d, the letter of the most significant 2-bit group first (a = 0, b = 1,
\* c = 2, d = 3); the 5 letters of a 10-bit word and the 4 letters of an
\* address in 0..255 decode to the value, and no other value of the range
\* gives the same letters.
C23_Base4RoundTrip ==
    b4_out # <<>> =>
        LET n == b4_length - 1 IN
        /\ Len(b4_out) = n
        /\ \A i \in 1..n :
             b4_out[i] = <<"a", "b", "c", "d">>[((b4_w \div Pow2(2 * (n - i))) % 4) + 1]
        /\ (n = 5 /\ b4_w < 1024) =>
             /\ base4_decode(b4_out) = b4_w
             /\ \A w2 \in 0..1023 : w2 # b4_w => word_to_base4(w2, 6) # b4_out
        /\ (n = 4 /\ b4_w <= 255) =>
             /\ base4_decode(b4_out) = b4_w
             /\ \A w2 \in 0..255 : w2 # b4_w => word_to_base4(w2, 5) # b4_out

C23_Witness ==
    /\ b4_w = 739
    /\ b4_length = 6
    /\ b4_out = <<"c", "d", "c", "a", "d">>

(***************************************************************************)
(* util_hash.c: hash_put, hash_get, hash_remove and hash_size, called in   *)
(* any order on one table.  A value is a pointer to one of MaxValue        *)
(* objects, 1..MaxValue; NULL is 0.                                        *)
(***************************************************************************)
MaxValue == 2

HashValues == 1..MaxValue

\* "AB", "BA" and "r1" share a chain of a table of INITIAL_CAPACITY chains
HashKeys == {"AB", "BA", "r1", "X"}

HashInit ==
    /\ ht = hash_create
    /\ ht_call = <<>>
    /\ ht_before = hash_create
    /\ ht_ret = 0
    /\ ht_stored = [key \in HashKeys |-> NULL]
    /\ AsmIdle
    /\ PreIdle
    /\ B4Idle
    /\ VecIdle
    /\ DrvIdle

HashCalled(call, r) ==
    /\ ht_call' = call
    /\ ht_before' = ht
    /\ ht' = r.ht
    /\ ht_ret' = r.ret
    /\ ht_stored' = IF r.ret # 0 THEN ht_stored
                    ELSE IF call[1] = "hash_put" THEN [ht_stored EXCEPT ![call[2]] = call[3]]
                    ELSE [ht_stored EXCEPT ![call[2]] = NULL]
    /\ UNCHANGED <<asmVars, preVars, files, textVars, b4Vars, vecVars, drvVars>>

HashPut ==
    \E key \in HashKeys, value \in HashValues, failed \in BOOLEAN :
        HashCalled(<<"hash_put", key, value>>, hash_put_ret(ht, key, value, failed))

HashRemove ==
    \E key \in HashKeys :
        HashCalled(<<"hash_remove", key, NULL>>, hash_remove(ht, key))

\* hash_put or hash_remove with a NULL key
HashNullKey ==
    \E f \in {"hash_put", "hash_remove"} :
        /\ ht_call' = <<f, "", NULL>>
        /\ ht_before' = ht
        /\ ht_ret' = -1
        /\ UNCHANGED <<ht, ht_stored, asmVars, preVars, files, textVars, b4Vars, vecVars, drvVars>>

HashNext == HashPut \/ HashRemove \/ HashNullKey

SpecHash == HashInit /\ [][HashNext]_vars


\* the keys of a chain, head first
ChainKeys(chain) == [i \in 1..Len(chain) |-> chain[i].key]

\* C26: after any sequence of hash_put and hash_remove calls, hash_size is
\* the number of keys stored (each is in the chains once), hash_get gives
\* for every key the value of the last hash_put that returned 0, and NULL
\* when there was none or a hash_remove took the key since; a put on a key
\* that is present returns 0, replaces its value and leaves the size and
\* the other keys alone; a remove of an absent key returns -1 and changes
\* nothing; a remove of a present key returns 0, takes that key only and
\* leaves every other key with its value, those of its chain included.
C26_HashTable ==
    LET key == ht_call[2]
        stored == {k \in HashKeys : ht_stored[k] # NULL}
    IN /\ hash_size(ht) = Cardinality(stored)
       /\ \A k \in HashKeys :
            Cardinality({e \in {<<i, at>> : i \in DOMAIN ht.tbl, at \in 1..hash_size(ht)} :
                           /\ e[2] <= Len(ht.tbl[e[1]])
                           /\ ht.tbl[e[1]][e[2]].key = k})
              = IF k \in stored THEN 1 ELSE 0
       /\ \A k \in HashKeys : hash_get_or_NULL(ht, k) = ht_stored[k]
       /\ (ht_call # <<>> /\ key \in HashKeys) =>
            /\ (ht_call[1] = "hash_put" /\ hash_has(ht_before, key)) =>
                 /\ ht_ret = 0
                 /\ hash_size(ht) = hash_size(ht_before)
                 /\ hash_get_or_NULL(ht, key) = ht_call[3]
                 /\ \A k \in HashKeys \ {key} :
                      hash_get_or_NULL(ht, k) = hash_get_or_NULL(ht_before, k)
            /\ (ht_call[1] = "hash_remove" /\ ~hash_has(ht_before, key)) =>
                 /\ ht_ret = -1
                 /\ ht = ht_before
            /\ (ht_call[1] = "hash_remove" /\ hash_has(ht_before, key)) =>
                 /\ ht_ret = 0
                 /\ hash_size(ht) = hash_size(ht_before) - 1
                 /\ hash_get_or_NULL(ht, key) = NULL
                 /\ \A k \in HashKeys \ {key} :
                      hash_get_or_NULL(ht, k) = hash_get_or_NULL(ht_before, k)

\* "BA" was removed from the middle of the chain it shared with "r1" and "AB"
C26_Witness ==
    /\ ht_call = <<"hash_remove", "BA", NULL>>
    /\ ht_ret = 0
    /\ ChainKeys(Chain(ht_before, BucketOf(ht_before, "BA"))) = <<"r1", "BA", "AB">>
    /\ ChainKeys(Chain(ht, BucketOf(ht, "BA"))) = <<"r1", "AB">>
    /\ hash_get_or_NULL(ht, "r1") = 2
    /\ hash_get_or_NULL(ht, "AB") = 1
    /\ hash_size(ht) = 2

(***************************************************************************)
(* util_vec.c: vec_create, vec_push and vec_get.  data holds the len cells *)
(* vec_push has written, in order; the cap - len cells after them are      *)
(* allocated and not written.  An element is one of the objects of         *)
(* VecElems; vec_get gives the element its pointer points to, or NULL.     *)
(***************************************************************************)
INIT_VEC_SIZE == 8

MaxPushes == 17

VecElems == {1, 2}

\* vec_create(v, elem_size), elem_size > 0
vec_create == [data |-> <<>>, len |-> 0, cap |-> 0]

\* memcpy(dest, elem, v->elem_sz); v->len++
vec_store(vec, elem) ==
    [ret |-> 0,
     v |-> [vec EXCEPT !.data = [i \in 1..vec.len + 1 |-> IF i = vec.len + 1 THEN elem ELSE vec.data[i]],
                       !.len = vec.len + 1]]

\* A variant of vec_push that grows the vector by INIT_VEC_SIZE cells.
vec_push_no_double(vec, elem, failed) ==
    IF vec.len >= vec.cap
    THEN IF failed
         THEN [ret |-> -1, v |-> vec]
         ELSE vec_store([vec EXCEPT !.cap = vec.cap + INIT_VEC_SIZE], elem)
    ELSE vec_store(vec, elem)

\* vec_push(v, elem) and the value it returns; failed: realloc returns NULL
vec_push(vec, elem, failed) ==
    IF vec.len >= vec.cap
    THEN IF failed
         THEN [ret |-> -1, v |-> vec]
         ELSE vec_store([vec EXCEPT !.cap = IF vec.cap = 0 THEN INIT_VEC_SIZE ELSE vec.cap * 2], elem)
    ELSE vec_store(vec, elem)

\* *vec_get(v, idx), NULL when vec_get returns NULL
vec_get(vec, idx) == IF idx >= vec.len THEN NULL ELSE vec.data[idx + 1]

VecInit ==
    /\ v = vec_create
    /\ vec_call = <<>>
    /\ v_before = vec_create
    /\ vec_ret = 0
    /\ pushed = <<>>
    /\ AsmIdle
    /\ PreIdle
    /\ B4Idle
    /\ HashIdle
    /\ DrvIdle

VecPushed(call, r) ==
    /\ vec_call' = call
    /\ v_before' = v
    /\ v' = r.v
    /\ vec_ret' = r.ret
    /\ pushed' = IF r.ret = 0 THEN Append(pushed, call[2]) ELSE pushed
    /\ UNCHANGED <<asmVars, preVars, files, textVars, b4Vars, hashVars, drvVars>>

VecPush ==
    /\ Len(pushed) < MaxPushes
    /\ \E elem \in VecElems, failed \in BOOLEAN :
         VecPushed(<<"v", elem>>, vec_push(v, elem, failed))

\* vec_push with a NULL vector or a NULL element
VecPushNull ==
    \E call \in {<<"NULL", 1>>, <<"v", NULL>>} :
        VecPushed(call, [ret |-> -1, v |-> v])

VecNext == VecPush \/ VecPushNull

SpecVec == VecInit /\ [][VecNext]_vars

\* the capacity after n pushes that returned 0: none, or the first of
\* INIT_VEC_SIZE, 2 * INIT_VEC_SIZE, 4 * INIT_VEC_SIZE, ... to hold n cells
RECURSIVE CapFor(_, _)
CapFor(n, cap) == IF n <= cap THEN cap ELSE CapFor(n, IF cap = 0 THEN INIT_VEC_SIZE ELSE 2 * cap)

\* C27: after any sequence of vec_push calls on a created vector, len is the
\* number of calls that returned 0, cap >= len (8 after the first push, twice
\* what it was at every growth), vec_get(i) is the element of the i-th such
\* call for every i < len, whatever growths came after it, and NULL for
\* every i >= len; a vec_push with a NULL vector or element, like every
\* vec_push that returns -1, leaves the vector as it was.
C27_Vector ==
    /\ v.len = Len(pushed)
    /\ v.cap >= v.len
    /\ v.cap = CapFor(v.len, 0)
    /\ v.cap # v_before.cap => v.cap = IF v_before.cap = 0 THEN 8 ELSE 2 * v_before.cap
    /\ \A i \in 0..(v.len - 1) : vec_get(v, i) = pushed[i + 1]
    /\ \A i \in v.len..(MaxPushes + 1) : vec_get(v, i) = NULL
    /\ vec_call # <<>> =>
         /\ (vec_call[1] = "NULL" \/ vec_call[2] = NULL) => vec_ret = -1
         /\ vec_ret = -1 => v = v_before
         /\ vec_ret = 0 => v.len = v_before.len + 1

\* the 17th push made the second growth, from 16 cells to 32
C27_Witness ==
    /\ vec_call = <<"v", 2>>
    /\ vec_ret = 0
    /\ v_before.cap = 2 * INIT_VEC_SIZE
    /\ v.cap = 4 * INIT_VEC_SIZE
    /\ v.len = 17
    /\ vec_get(v, 0) = 1
    /\ vec_get(v, 7) = 2
    /\ vec_get(v, 8) = 1
    /\ vec_get(v, 16) = 2
    /\ vec_get(v, 17) = NULL

(***************************************************************************)
(* main: the driver.  The phases are called with what they can return:     *)
(* create_file_path and symtab_create a pointer (1) or NULL (0),           *)
(* preprocess_file and second_pass 0 or -1, first_pass -1, 0 or the number *)
(* of errors.  A symbol table is [created_for, symbols]: the argument it   *)
(* was created for and the arguments whose symbols first_pass put in it.   *)
(* phases[f] lists the calls made for argument f, in order.                *)
(***************************************************************************)
MaxFiles == 3

MaxErrors == 2

PointerResults == {0, 1}

PassResults == {0, -1}

FirstPassResults == -1..MaxErrors

\* A variant of the test of first_pass's result that lets error counts pass.
first_pass_failed_negative(r) == r < 0

\* first_pass(am_path, symbol_table) != 0
first_pass_failed(r) == r # 0

\* a call made for the current argument
Called(phase, r) == [phases EXCEPT ![drv_i] = Append(@, [phase |-> phase, ret |-> r])]

CalledWith(phase, r, table) ==
    [phases EXCEPT ![drv_i] = Append(@, [phase |-> phase, ret |-> r, table |-> table])]

\* the loop's i++ and i < argc
NextArgument ==
    /\ drv_i' = drv_i + 1
    /\ drv_pc' = IF drv_i + 1 < argc THEN "create_file_path" ELSE "return"

\* overall_result = 1; continue
FailedFile ==
    /\ overall_result' = 1
    /\ NextArgument

MainInit ==
    /\ argc \in 1..(MaxFiles + 1)
    /\ drv_i = 0
    /\ drv_pc = "start"
    /\ overall_result = 0
    /\ symbol_table = "NULL"
    /\ exit_status = -1
    /\ phases = <<>>
    /\ AsmIdle
    /\ PreIdle
    /\ B4Idle
    /\ HashIdle
    /\ VecIdle

MainStart ==
    /\ drv_pc = "start"
    /\ IF argc < 2
       THEN /\ exit_status' = 1
            /\ drv_pc' = "done"
            /\ UNCHANGED <<drv_i, phases>>
       ELSE /\ drv_i' = 1
            /\ drv_pc' = "create_file_path"
            /\ phases' = [f \in 1..(argc - 1) |-> <<>>]
            /\ UNCHANGED exit_status
    /\ UNCHANGED <<argc, overall_result, symbol_table>>
    /\ UNCHANGED <<asmVars, preVars, files, textVars, b4Vars, hashVars, vecVars>>

MainCreateFilePath ==
    /\ drv_pc = "create_file_path"
    /\ symbol_table' = "NULL"
    /\ \E as_path \in PointerResults, am_path \in PointerResults :
         /\ phases' = Called("create_file_path", IF as_path = NULL \/ am_path = NULL THEN 0 ELSE 1)
         /\ IF as_path = NULL \/ am_path = NULL
            THEN FailedFile
            ELSE drv_pc' = "preprocess_file" /\ UNCHANGED <<drv_i, overall_result>>
    /\ UNCHANGED <<argc, exit_status>>
    /\ UNCHANGED <<asmVars, preVars, files, textVars, b4Vars, hashVars, vecVars>>

MainPreprocessFile ==
    /\ drv_pc = "preprocess_file"
    /\ \E r \in PassResults :
         /\ phases' = Called("preprocess_file", r)
         /\ IF r # 0
            THEN FailedFile
            ELSE drv_pc' = "symtab_create" /\ UNCHANGED <<drv_i, overall_result>>
    /\ UNCHANGED <<argc, symbol_table, exit_status>>
    /\ UNCHANGED <<asmVars, preVars, files, textVars, b4Vars, hashVars, vecVars>>

MainSymtabCreate ==
    /\ drv_pc = "symtab_create"
    /\ \E r \in PointerResults :
         /\ phases' = Called("symtab_create", r)
         /\ IF r = NULL
            THEN FailedFile /\ UNCHANGED symbol_table
            ELSE /\ symbol_table' = [created_for |-> drv_i, symbols |-> <<>>]
                 /\ drv_pc' = "first_pass"
                 /\ UNCHANGED <<drv_i, overall_result>>
    /\ UNCHANGED <<argc, exit_status>>
    /\ UNCHANGED <<asmVars, preVars, files, textVars, b4Vars, hashVars, vecVars>>

MainFirstPass ==
    /\ drv_pc = "first_pass"
    /\ \E r \in FirstPassResults :
         /\ phases' = CalledWith("first_pass", r, symbol_table)
         /\ IF first_pass_failed(r)
            THEN FailedFile /\ symbol_table' = "destroyed"
            ELSE /\ symbol_table' = [symbol_table EXCEPT !.symbols = Append(@, drv_i)]
                 /\ drv_pc' = "second_pass"
                 /\ UNCHANGED <<drv_i, overall_result>>
    /\ UNCHANGED <<argc, exit_status>>
    /\ UNCHANGED <<asmVars, preVars, files, textVars, b4Vars, hashVars, vecVars>>

MainSecondPass ==
    /\ drv_pc = "second_pass"
    /\ \E r \in PassResults :
         /\ phases' = CalledWith("second_pass", r, symbol_table)
         /\ IF r # 0
            THEN FailedFile
            ELSE NextArgument /\ UNCHANGED overall_result
    /\ symbol_table' = "destroyed"
    /\ UNCHANGED <<argc, exit_status>>
    /\ UNCHANGED <<asmVars, preVars, files, textVars, b4Vars, hashVars, vecVars>>

MainReturn ==
    /\ drv_pc = "return"
    /\ exit_status' = overall_result
    /\ drv_pc' = "done"
    /\ UNCHANGED <<argc, drv_i, overall_result, symbol_table, phases>>
    /\ UNCHANGED <<asmVars, preVars, files, textVars, b4Vars, hashVars, vecVars>>

MainNext ==
    \/ MainStart
    \/ MainCreateFilePath
    \/ MainPreprocessFile
    \/ MainSymtabCreate
    \/ MainFirstPass
    \/ MainSecondPass
    \/ MainReturn

SpecMain == MainInit /\ [][MainNext]_vars


\* the calls main makes for one argument, in order
PhaseOrder == <<"create_file_path", "preprocess_file", "symtab_create", "first_pass", "second_pass">>

\* what each of them returns when it succeeds
PhaseSuccess == <<1, 0, 1, 0, 0>>

\* every call main made for argument f succeeded, second_pass included
Completed(f) ==
    /\ Len(phases[f]) = Len(PhaseOrder)
    /\ \A k \in 1..Len(PhaseOrder) : phases[f][k].ret = PhaseSuccess[k]

\* The calls of argument f are a prefix of PhaseOrder, each made after the
\* one before it succeeded; first_pass gets an empty table created for f,
\* second_pass the same table with the symbols of f alone; the arguments
\* after the current one are not started, those before it are finished, at
\* their first failing call or at second_pass, whatever the others did.
PhasesInOrder ==
    \A f \in DOMAIN phases :
        /\ [k \in 1..Len(phases[f]) |-> phases[f][k].phase] = SubSeq(PhaseOrder, 1, Len(phases[f]))
        /\ \A k \in 1..(Len(phases[f]) - 1) : phases[f][k].ret = PhaseSuccess[k]
        /\ Len(phases[f]) >= 4 => phases[f][4].table = [created_for |-> f, symbols |-> <<>>]
        /\ Len(phases[f]) >= 5 => phases[f][5].table = [created_for |-> f, symbols |-> <<f>>]
        /\ f > drv_i => phases[f] = <<>>
        /\ f < drv_i =>
             /\ Len(phases[f]) >= 1
             /\ Len(phases[f]) < Len(PhaseOrder) =>
                  phases[f][Len(phases[f])].ret # PhaseSuccess[Len(phases[f])]

\* C25 as stated: ... and the exit status is zero if and only if every
\* argument completed all its phases.
C25_Driver ==
    /\ PhasesInOrder
    /\ drv_pc = "done" => (exit_status = 0 <=> \A f \in DOMAIN phases : Completed(f))

\* C25, amended: for each argument main calls preprocess_file, first_pass
\* and second_pass in that order, with a symbol table created for that
\* argument; first_pass is called only after preprocess_file returned 0 and
\* second_pass only after first_pass returned 0; a failure for one argument
\* leaves the later ones to be processed; and the exit status is zero if and
\* only if at least one argument was given and every argument completed all
\* its phases: without arguments main returns 1 and runs no phase.
C25_DriverAmended ==
    /\ PhasesInOrder
    /\ drv_pc # "done" => exit_status = -1
    /\ (drv_pc \in {"return", "done"} /\ argc >= 2) => drv_i = argc /\ Len(phases) = argc - 1
    /\ (drv_pc = "done" /\ argc < 2) => exit_status = 1 /\ phases = <<>>
    /\ (drv_pc = "done" /\ argc >= 2) =>
         /\ exit_status = 0 <=> \A f \in DOMAIN phases : Completed(f)
         /\ exit_status \in {0, 1}

\* the first argument failed in first_pass with 2 errors, the second was
\* processed to the end, and main returned 1
C25_Witness ==
    /\ drv_pc = "done"
    /\ argc = 3
    /\ Len(phases[1]) = 4
    /\ phases[1][4].ret = 2
    /\ Completed(2)
    /\ exit_status = 1

====
